---- MODULE Spec2Model ----
(***************************************************************************)
(* Scene-object lifecycle and batched-primitive manager of satvis:         *)
(* CesiumComponentCollection (show/hide, the debounced rebuild of the      *)
(* shared geometry primitive, the self-cancelling tick subscriptions) and  *)
(* CesiumCallbackHelper (periodic tick callbacks), driven by the viewer's  *)
(* clock.onTick event; CesiumController (the imagery layers and the        *)
(* terrain provider of the scene); the static properties of the collection *)
(* classes as seen from two subclasses; PushManager (scheduled             *)
(* notifications); the URL synchronisation of the sat store.               *)
(***************************************************************************)
EXTENDS Integers, Sequences, FiniteSets, TLC

(* ------------------------------ bounds -------------------------------- *)
\* number of show/hide calls issued in one behaviour
MaxCalls == 2
\* longest geometries array the model lets show() build
MaxGeoms == 2
\* simulated clock values are 0..MaxTime
MaxTime == 2
\* number of setSelectedOnTickCallback/setTrackedOnTickCallback registrations
MaxRegs == 2
\* number of createPeriodicTickCallback/createPeriodicTimeCallback calls
MaxPeriodic == 2
\* largest refreshRate (ticks or seconds) passed to them
MaxRate == 2
\* ticks counted per periodic callback (the count saturates there)
MaxSeen == 4
\* number of track(true) calls
MaxTracks == 2
\* longest list of layer names assigned to imageryLayers
MaxLayers == 2
\* terrain providers being created at one time
MaxCreating == 2
\* console.error messages kept
MaxErrors == 2
\* show/hide calls on the collections of the two subclasses
MaxClassCalls == 3
\* notifyAtDate calls
MaxNotify == 3
\* characters of a name, names of a list, store mutations and page loads
MaxNameLen == 3
MaxListLen == 2
MaxPatches == 1
MaxLoads == 2

(* --------------------------- program constants ------------------------ *)
\* refreshRate passed to createPeriodicTickCallback by the rebuild debounce
DebounceTicks == 30
\* initial value of lastState in the readiness poll
InitialLastState == -1
\* Cesium PrimitiveState.READY .. PrimitiveState.COMPLETE
PrimitiveStateReady == 0
PrimitiveStateComplete == 5

\* names of the geometry components a collection can hold
Names == {"A", "B"}
\* entities the viewer can select or track (Undefined: none)
Undefined == "undefined"
Entities == {"e1", "e2"}
Times == 0..MaxTime
\* names of the Entity and Primitive components a collection can hold
EntityNames == {"Groundstation"}
PrimitiveNames == {"Primitive"}
ComponentNames == Names \cup EntityNames \cup PrimitiveNames
\* a name under which nothing is ever stored
UnknownName == "unknown"
\* a scene object that belongs to no collection
Foreign == "foreign"
\* argument lists of show()/hide(): one or two names, repetition allowed
NameLists == {<<n>> : n \in Names} \cup {<<n, m>> : n \in Names, m \in Names}

\* Matrix4.IDENTITY, the modelMatrix a new Cesium.Primitive starts with
Identity == <<"identity">>
\* Transforms.computeIcrfToFixedMatrix(t) is defined only for the times whose
\* reference-frame data is loaded (CesiumController.preloadReferenceFrameData
\* preloads an interval around now); time 0 lies outside that interval
IcrfDefined(t) == t # 0
\* Matrix4.fromRotationTranslation(computeIcrfToFixedMatrix(t))
IcrfToFixed(t) == <<"icrfToFixed", t>>

\* CesiumController.imageryProviders: name -> [alpha, base] (three of them)
ImageryProviders ==
  [Offline |-> [alpha |-> "1", base |-> TRUE],
   OfflineHighres |-> [alpha |-> "1", base |-> TRUE],
   Tiles |-> [alpha |-> "1", base |-> FALSE]]
\* CesiumController.terrainProviders: name -> [visible] (visible ?? true)
\* sync: create() returns the provider itself, not a promise
TerrainProviders ==
  [None |-> [visible |-> TRUE, sync |-> TRUE],
   Maptiler |-> [visible |-> TRUE, sync |-> FALSE],
   ArcGIS |-> [visible |-> FALSE, sync |-> FALSE]]
\* a layer name as its "_"-separated parts: "Tiles_0.5" is <<"Tiles", "0.5">>
LayerNames ==
  {<<"Offline">>, <<"OfflineHighres">>, <<"Tiles">>, <<"Tiles", "0.5">>,
   <<"Bogus">>}
\* names a caller may assign to terrainProvider
TerrainNames == {"None", "Maptiler", "ArcGIS", "Bogus"}
\* the terrain provider a new Viewer starts with
DefaultTerrain == "Ellipsoid"

VARIABLES
  components,               \* keys of #components (stored geometry components)
  lazy,                     \* this.lazy
  geometries,               \* static geometries: array of GeometryInstance
  primitive,                \* static primitive (pid = 0: undefined)
  primitivePendingUpdate,   \* static primitivePendingUpdate
  primitivePendingCreation, \* static primitivePendingCreation
  scenePrimitives,          \* viewer.scene.primitives (ids of primitives)
  onTick,                   \* viewer.clock.onTick: listeners, registration order
  currentTime,              \* viewer.clock.currentTime
  shouldAnimate,            \* viewer.clock.shouldAnimate
  selectedEntity,           \* viewer.selectedEntity
  trackedEntity,            \* viewer.trackedEntity
  selectedEntityChanged,    \* viewer.selectedEntityChanged: listeners
  trackedEntityChanged,     \* viewer.trackedEntityChanged: listeners
  regs,                     \* per registration: observed callback invocations
  entities,                 \* viewer.entities (Entity components in it)
  primitives,               \* viewer.scene.primitives: the Primitive
                            \* components in it (scenePrimitives: the batched)
  defaultEntity,            \* this.defaultEntity
  flights,                  \* pending viewer.flyTo promises of track(true)
  periodic,                 \* per periodic callback: observed invocations
  imageryLayers,            \* viewer.scene.imageryLayers: [provider, alpha]
  terrainProvider,          \* viewer.terrainProvider
  terrainCreating,          \* pending create() promises of terrain providers
  consoleErrors,            \* messages passed to console.error
  callsLeft,                \* show/hide calls still to be issued
  h,                        \* history of rebuilds (observation only)
  statics,                  \* the static properties of the collection
                            \* classes, per class (two subclasses)
  pushManager,              \* a PushManager, the host's timeouts and clock
  urlSync                   \* the sat store, its defaults and the URL query

sceneVars == <<components, lazy, geometries, primitive, primitivePendingUpdate,
          primitivePendingCreation, scenePrimitives, onTick, currentTime,
          shouldAnimate, selectedEntity, trackedEntity, selectedEntityChanged,
          trackedEntityChanged, regs, entities, primitives, defaultEntity,
          flights, periodic, imageryLayers, terrainProvider, terrainCreating,
          consoleErrors, callsLeft, h>>

vars == <<sceneVars, statics, pushManager, urlSync>>

\* a Cesium.Primitive under construction or installed
NoPrimitive == [pid |-> 0, insts |-> <<>>, state |-> PrimitiveStateReady,
                ready |-> FALSE, shared |-> FALSE, modelMatrix |-> Identity,
                req |-> <<>>, dirty |-> FALSE, installedAt |-> 0]

\* an onTick listener: kind "debounce" (createPeriodicTickCallback of the
\* rebuild), "ready" (the readiness poll), "regTick" (set...OnTickCallback),
\* "everyTicks" (createPeriodicTickCallback) or "everyTime"
\* (createPeriodicTimeCallback); rate: refreshRate; lastUpdated: the
\* reference time of a time-based callback
Listener(id, kind) == [id |-> id, kind |-> kind, ticks |-> 0,
                       lastState |-> InitialLastState, prim |-> NoPrimitive,
                       reg |-> 0, rate |-> 0, lastUpdated |-> 0]

(* ------------------------- Cesium.Event helpers ----------------------- *)
Ids(ls) == {ls[i].id : i \in 1..Len(ls)}
HasListener(ls, id) == id \in Ids(ls)
Lookup(ls, id) == ls[CHOOSE i \in 1..Len(ls) : ls[i].id = id]
Replace(ls, id, l) == [i \in 1..Len(ls) |-> IF ls[i].id = id THEN l ELSE ls[i]]
RemoveEventListener(ls, id) == SelectSeq(ls, LAMBDA l : l.id # id)
NewId(ls) == CHOOSE n \in 1..(Len(ls) + 1) : n \notin Ids(ls)
AddEventListener(ls, l) == Append(ls, l)
IdSeq(ls) == [i \in 1..Len(ls) |-> ls[i].id]
OfKind(ls, kind) == SelectSeq(ls, LAMBDA l : l.kind = kind)

(* ------------------- the program state as one value ------------------- *)
\* the fields a handler reads and assigns, threaded through the calls it makes
Cur == [components |-> components, lazy |-> lazy, geometries |-> geometries,
        primitive |-> primitive,
        primitivePendingUpdate |-> primitivePendingUpdate,
        primitivePendingCreation |-> primitivePendingCreation,
        scenePrimitives |-> scenePrimitives, onTick |-> onTick,
        currentTime |-> currentTime, shouldAnimate |-> shouldAnimate,
        selectedEntity |-> selectedEntity, trackedEntity |-> trackedEntity,
        selectedEntityChanged |-> selectedEntityChanged,
        trackedEntityChanged |-> trackedEntityChanged, regs |-> regs,
        entities |-> entities, primitives |-> primitives,
        defaultEntity |-> defaultEntity,
        flights |-> flights, periodic |-> periodic,
        imageryLayers |-> imageryLayers, terrainProvider |-> terrainProvider,
        terrainCreating |-> terrainCreating, consoleErrors |-> consoleErrors,
        h |-> h]

\* the state a handler returned becomes the next state (s: st evaluated once)
Commit(st) ==
  \E s \in {st} :
    /\ components' = s.components
    /\ lazy' = s.lazy
    /\ geometries' = s.geometries
    /\ primitive' = s.primitive
    /\ primitivePendingUpdate' = s.primitivePendingUpdate
    /\ primitivePendingCreation' = s.primitivePendingCreation
    /\ scenePrimitives' = s.scenePrimitives
    /\ onTick' = s.onTick
    /\ currentTime' = s.currentTime
    /\ shouldAnimate' = s.shouldAnimate
    /\ selectedEntity' = s.selectedEntity
    /\ trackedEntity' = s.trackedEntity
    /\ selectedEntityChanged' = s.selectedEntityChanged
    /\ trackedEntityChanged' = s.trackedEntityChanged
    /\ regs' = s.regs
    /\ entities' = s.entities
    /\ primitives' = s.primitives
    /\ defaultEntity' = s.defaultEntity
    /\ flights' = s.flights
    /\ periodic' = s.periodic
    /\ imageryLayers' = s.imageryLayers
    /\ terrainProvider' = s.terrainProvider
    /\ terrainCreating' = s.terrainCreating
    /\ consoleErrors' = s.consoleErrors
    /\ h' = s.h
    /\ UNCHANGED <<statics, pushManager, urlSync>>

(* ----------------------- observation of rebuilds ---------------------- *)
\* win: id of the debounce listener armed from Idle whose window is open
\* winRebuilds: rebuilds performed since that arming, up to its own
\* mutInCreate: the contribution set was mutated during the running creation
\* owed: the last finished creation was mutated while in flight
\* follow: rebuilds performed since that creation finished
\* blocked: a debounce timer fired during the running creation
\* A rebuild is performed when a candidate is constructed or an installed
\* primitive is removed.
\* flip: changes with every show/hide call on named components; unknown:
\* the latest of them named only names that were not stored; hid: the names
\* the latest step, a hide on a lazy collection, was given and found stored;
\* trip: the names of hid the latest step, a show, was given;
\* bypassed: a stored component was removed from the scene from outside;
\* first, last: the first and the latest stored name a show call enabled;
\* gone: the names the latest step, a hide, was given and found stored;
\* was: the names a hide on a collection that is not lazy found installed,
\* not shown since; back: the names of was the latest step, a show, was given;
\* emptied: the latest step was a tick on which a debounce timer fired with
\* no creation in flight on an empty contribution set ("removed": an
\* installed primitive was there, "none": there was none), "no" otherwise;
\* pollDue: readiness polls registered when the latest tick began; polls:
\* invocations of a readiness poll during it; pollN: polls that found the
\* candidate under construction not ready (2: two or more); readState: the
\* progression state the latest of them read; prevState: the one the poll
\* before it read; advanced: the latest of them called update;
\* rendered: scene.requestRender was called during the latest step;
\* swap: what the readiness poll that installed a candidate during the
\* latest step left when it returned (NoSwap: none did);
\* shown: the stored geometry names shown and not hidden since; mutated:
\* the latest step was a show or hide call on a stored geometry name;
\* aflip: changes with every assignment to imageryLayers or terrainProvider;
\* assigned: the latest of them named a provider name that is not known
\* ("unknown") or only known ones ("known"), "no": none yet;
\* requested: the latest known name assigned to terrainProvider;
\* thrown: an exception a callback threw is in flight; when a tick has
\* returned, it left raiseEvent for the caller of clock.tick during it
NoSwap == [old |-> 0, new |-> 0, scene |-> {}, current |-> 0,
           rendered |-> FALSE, creation |-> FALSE, update |-> FALSE,
           polling |-> FALSE, debounce |-> 0]

InitHistory == [win |-> 0, winRebuilds |-> 0, mutInCreate |-> FALSE,
                owed |-> FALSE, follow |-> 0, blocked |-> FALSE,
                flip |-> FALSE, unknown |-> FALSE, hid |-> {}, trip |-> {},
                bypassed |-> FALSE, first |-> Undefined, last |-> Undefined,
                gone |-> {}, was |-> {}, back |-> {}, emptied |-> "no",
                pollDue |-> 0, polls |-> 0, pollN |-> 0, readState |-> 0,
                prevState |-> 0, advanced |-> FALSE, rendered |-> FALSE,
                swap |-> NoSwap, shown |-> {}, mutated |-> FALSE,
                aflip |-> FALSE, assigned |-> "no", thrown |-> FALSE,
                requested |-> Undefined]

\* a step other than show/hide was taken
NoteOther(hist) ==
  [hist EXCEPT !.hid = {}, !.trip = {}, !.gone = {}, !.back = {},
               !.emptied = "no", !.rendered = FALSE, !.swap = NoSwap,
               !.mutated = FALSE, !.thrown = FALSE]

Range(seq) == {seq[i] : i \in 1..Len(seq)}

\* the component of name n is installed in state st: in viewer.entities, in
\* scene.primitives or among the contributed geometries
InstalledIn(st, n) ==
  \/ n \in EntityNames /\ n \in st.entities
  \/ n \in PrimitiveNames /\ n \in st.primitives
  \/ n \in Names /\ n \in Range(st.geometries)

\* the stored names among names, in the order given
StoredOf(st, names) == SelectSeq(names, LAMBDA n : n \in st.components)

\* show / hide has run from state st with the names given and ended in
\* state s1
NoteShown(st, s1, op, names) ==
  LET given == Range(names) \cap st.components \cap Names IN
  [s1 EXCEPT !.h.shown = IF op = "show" THEN @ \cup given ELSE @ \ given,
             !.h.mutated = given # {}]

\* show / hide has run from state st with arguments arg (default: called
\* without a list of names) and ended in state s1
NoteCall(st, s1, op, arg) ==
  [NoteShown(st, s1, op, arg.names) EXCEPT
     !.h.emptied = "no", !.h.rendered = FALSE, !.h.swap = NoSwap,
     !.h.gone = IF op = "hide" THEN Range(arg.names) \cap st.components
                ELSE {},
     !.h.was = IF st.lazy THEN {}
               ELSE IF op = "hide"
               THEN @ \cup {n \in Range(arg.names) \cap st.components :
                              InstalledIn(st, n)}
               ELSE @ \ Range(arg.names),
     !.h.back = IF op = "show" /\ ~st.lazy
                THEN Range(arg.names) \cap st.h.was ELSE {},
     !.h.first = IF @ = Undefined /\ op = "show"
                      /\ StoredOf(st, arg.names) # <<>>
                 THEN Head(StoredOf(st, arg.names)) ELSE @,
     !.h.last = IF op = "show" /\ StoredOf(st, arg.names) # <<>>
                THEN StoredOf(st, arg.names)[Len(StoredOf(st, arg.names))]
                ELSE @,
     !.h.flip = ~@,
     !.h.unknown = ~arg.default /\ Range(arg.names) \cap st.components = {},
     !.h.hid = IF op = "hide" /\ st.lazy
               THEN Range(arg.names) \cap st.components ELSE {},
     !.h.trip = IF op # "show" THEN {}
                ELSE IF arg.default THEN st.h.hid
                ELSE Range(arg.names) \cap st.h.hid]

Min(a, b) == IF a < b THEN a ELSE b

\* the element of a one-element set: {F(x) : x \in {e}} evaluates e once
Only(S) == CHOOSE x \in S : TRUE

\* a show/hide call on a geometry component is about to run
NoteMutation(st) ==
  [st EXCEPT !.h.mutInCreate = @ \/ st.primitivePendingCreation,
             !.h.emptied = "no", !.h.pollDue = 0, !.h.polls = 0,
             !.h.rendered = FALSE, !.h.swap = NoSwap,
             !.h.owed = IF st.primitivePendingUpdate THEN @ ELSE FALSE,
             !.h.follow = IF st.primitivePendingUpdate THEN @ ELSE 0,
             !.onTick = [i \in 1..Len(st.onTick) |->
                 IF st.onTick[i].kind = "ready"
                 THEN [st.onTick[i] EXCEPT !.prim.dirty = TRUE]
                 ELSE st.onTick[i]]]

\* the debounce listener id is being armed by a call made in state st
NoteArmed(st, id) ==
  IF st.h.win = 0 /\ ~st.primitivePendingCreation
  THEN [st EXCEPT !.h.win = id, !.h.winRebuilds = 0]
  ELSE st

\* the debounce listener id processes the contribution set
NoteRebuild(st, id, performed) ==
  [st EXCEPT !.h.winRebuilds =
                 IF st.h.win # 0 /\ performed THEN Min(@ + 1, 2) ELSE @,
             !.h.win = IF st.h.win = id THEN 0 ELSE @,
             !.h.follow =
                 IF st.h.owed /\ performed THEN Min(@ + 1, 2) ELSE @]

\* no candidate is under construction, or one that no poll has found yet
NoteNoPoll(st) ==
  [st EXCEPT !.h.pollN = 0, !.h.readState = 0, !.h.prevState = 0,
             !.h.advanced = FALSE]

\* a readiness poll found its candidate not ready, in progression state
\* state, and called update or not
NotePoll(st, state, advanced) ==
  [st EXCEPT !.h.pollN = Min(@ + 1, 2),
             !.h.prevState = IF st.h.pollN = 0 THEN 0 ELSE st.h.readState,
             !.h.readState = state,
             !.h.advanced = advanced]

\* a readiness poll has been invoked
NotePolled(st) == [st EXCEPT !.h.polls = Min(@ + 1, 2)]

\* a creation finished and its primitive was installed
NoteInstalled(st) ==
  [NoteNoPoll(st) EXCEPT
             !.h.owed = @ \/ st.h.mutInCreate,
             !.h.follow = IF st.h.mutInCreate THEN 0 ELSE @,
             !.h.mutInCreate = FALSE, !.h.blocked = FALSE]

\* the debounce timer fired while a creation is in flight
NoteBlocked(st) == [st EXCEPT !.h.blocked = TRUE]

(* ------------------------- Cesium.Primitive --------------------------- *)
PidsInUse(st) ==
  st.scenePrimitives \cup {st.primitive.pid}
    \cup {st.onTick[i].prim.pid : i \in 1..Len(st.onTick)}

\* variant: the candidate is built without the last contributed geometry
NewPrimitiveDropsLast(st) ==
  [NoPrimitive EXCEPT
     !.pid = CHOOSE n \in 1..(Cardinality(PidsInUse(st)) + 1) :
               n \notin PidsInUse(st),
     !.insts = SubSeq(st.geometries, 1, Len(st.geometries) - 1),
     !.shared = TRUE, !.req = st.geometries]

\* new Cesium.Primitive({geometryInstances: geometries, ...}): the candidate
\* holds the geometries array itself (shared) until the array is replaced
NewPrimitive(st) ==
  [NoPrimitive EXCEPT
     !.pid = CHOOSE n \in 1..(Cardinality(PidsInUse(st)) + 1) :
               n \notin PidsInUse(st),
     !.insts = st.geometries, !.shared = TRUE, !.req = st.geometries]

\* primitive.update(frameState): READY -> CREATING reads the instances,
\* CREATED -> COMBINING, COMBINED -> COMPLETE (ready); no effect while a
\* worker is busy (CREATING, COMBINING)
PrimitiveUpdate(p) ==
  IF p.state = PrimitiveStateReady
  THEN [p EXCEPT !.state = 1, !.shared = FALSE]
  ELSE IF p.state = 2 THEN [p EXCEPT !.state = 3]
  ELSE IF p.state = 4
  THEN [p EXCEPT !.state = PrimitiveStateComplete, !.ready = TRUE]
  ELSE p

(* ------------------- CesiumComponentCollection ------------------------ *)
\* viewer.scene.requestRender()
RequestRender(st) == [st EXCEPT !.h.rendered = TRUE]

\* the readiness poll id, entered in state st, has installed its candidate
\* and returns in state s1
NoteSwap(st, id, s1) ==
  [s1 EXCEPT !.h.swap =
     [old |-> st.primitive.pid, new |-> Lookup(st.onTick, id).prim.pid,
      scene |-> s1.scenePrimitives, current |-> s1.primitive.pid,
      rendered |-> s1.h.rendered, creation |-> s1.primitivePendingCreation,
      update |-> s1.primitivePendingUpdate,
      polling |-> HasListener(s1.onTick, id),
      debounce |-> Len(OfKind(s1.onTick, "debounce"))]]

\* variant: the old primitive is left in the scene
InstallPrimitiveKeepsOld(st, id) ==
  LET l == Lookup(st.onTick, id)
      p == [l.prim EXCEPT
              !.modelMatrix = IF IcrfDefined(st.currentTime)
                              THEN IcrfToFixed(st.currentTime) ELSE @,
              !.installedAt = st.currentTime]
  IN NoteSwap(st, id, NoteInstalled(RequestRender(
       [st EXCEPT !.scenePrimitives = @ \cup {p.pid},
                  !.primitive = p,
                  !.primitivePendingCreation = FALSE,
                  !.onTick = RemoveEventListener(@, id)])))

\* variant: the poll is not unregistered
InstallPrimitiveKeepsPoll(st, id) ==
  LET l == Lookup(st.onTick, id)
      p == [l.prim EXCEPT
              !.modelMatrix = IF IcrfDefined(st.currentTime)
                              THEN IcrfToFixed(st.currentTime) ELSE @,
              !.installedAt = st.currentTime]
      removed == IF st.primitive.pid # 0
                 THEN st.scenePrimitives \ {st.primitive.pid}
                 ELSE st.scenePrimitives
  IN NoteSwap(st, id, NoteInstalled(RequestRender(
       [st EXCEPT !.scenePrimitives = removed \cup {p.pid},
                  !.primitive = p,
                  !.primitivePendingCreation = FALSE])))

\* lines 147-159: the candidate of listener id is ready and gets installed
InstallPrimitive(st, id) ==
  LET l == Lookup(st.onTick, id)
      p == [l.prim EXCEPT
              !.modelMatrix = IF IcrfDefined(st.currentTime)
                              THEN IcrfToFixed(st.currentTime) ELSE @,
              !.installedAt = st.currentTime]
      removed == IF st.primitive.pid # 0
                 THEN st.scenePrimitives \ {st.primitive.pid}
                 ELSE st.scenePrimitives
  IN NoteSwap(st, id, NoteInstalled(RequestRender(
       [st EXCEPT !.scenePrimitives = removed \cup {p.pid},
                  !.primitive = p,
                  !.primitivePendingCreation = FALSE,
                  !.onTick = RemoveEventListener(@, id)])))

\* variant: update is called on every poll
ReadyCallbackAlwaysUpdates(st, id) ==
  LET l == Lookup(st.onTick, id)
      s0 == NotePolled(st)
  IN IF ~l.prim.ready
     THEN NotePoll(
            [s0 EXCEPT !.onTick =
               Replace(@, id, [l EXCEPT !.lastState = l.prim.state,
                                        !.prim = PrimitiveUpdate(l.prim)])],
            l.prim.state, TRUE)
     ELSE InstallPrimitive(s0, id)

\* variant: a candidate whose state stands still is installed as it is
ReadyCallbackInstallsStalled(st, id) ==
  LET l == Lookup(st.onTick, id)
      s0 == NotePolled(st)
  IN IF ~l.prim.ready /\ l.prim.state # l.lastState
     THEN NotePoll(
            [s0 EXCEPT !.onTick =
               Replace(@, id, [l EXCEPT !.lastState = l.prim.state,
                                        !.prim = PrimitiveUpdate(l.prim)])],
            l.prim.state, TRUE)
     ELSE InstallPrimitive(s0, id)

\* lines 135-160: the readiness poll registered on clock.onTick
ReadyCallback(st, id) ==
  LET l == Lookup(st.onTick, id)
      s0 == NotePolled(st)
  IN IF ~l.prim.ready
     THEN IF l.prim.state # l.lastState
          THEN NotePoll(
                 [s0 EXCEPT !.onTick =
                    Replace(@, id,
                      [l EXCEPT !.lastState = l.prim.state,
                                !.prim = PrimitiveUpdate(l.prim)])],
                 l.prim.state, TRUE)
          ELSE NotePoll(s0, l.prim.state, FALSE)
     ELSE InstallPrimitive(s0, id)

\* the empty-set branch has run, from state st
NoteEmptied(st, s1) ==
  [s1 EXCEPT !.h.emptied = IF st.primitive.pid # 0 THEN "removed"
                           ELSE IF @ = "no" THEN "none" ELSE @]

\* variant: the static primitive is cleared but left in the scene
RemovePrimitiveKeepsInScene(st, id) ==
  NoteEmptied(st,
    NoteRebuild(RequestRender([st EXCEPT !.primitive = NoPrimitive]),
                id, st.primitive.pid # 0))

\* lines 122-127: the contribution set is empty
RemovePrimitive(st, id) ==
  NoteEmptied(st,
    NoteRebuild(
      RequestRender([st EXCEPT !.scenePrimitives = @ \ {st.primitive.pid},
                               !.primitive = NoPrimitive]),
      id, st.primitive.pid # 0))

\* variant: the installed primitive is taken out of the scene when the
\* construction starts
StartCreationRemovesOld(st, id) ==
  LET rid == NewId(st.onTick)
      poll == [Listener(rid, "ready") EXCEPT !.prim = NewPrimitive(st)]
  IN NoteRebuild(
       [NoteNoPoll(st) EXCEPT !.primitivePendingCreation = TRUE,
                  !.scenePrimitives = @ \ {st.primitive.pid},
                  !.onTick = RemoveEventListener(
                               AddEventListener(@, poll), id)],
       id, TRUE)

\* lines 128-161: construct the candidate, poll it, drop the debounce listener
StartCreation(st, id) ==
  LET rid == NewId(st.onTick)
      poll == [Listener(rid, "ready") EXCEPT !.prim = NewPrimitive(st)]
  IN NoteRebuild(
       [NoteNoPoll(st) EXCEPT !.primitivePendingCreation = TRUE,
                  !.onTick = RemoveEventListener(
                               AddEventListener(@, poll), id)],
       id, TRUE)

\* variant: no check of primitivePendingCreation
RebuildCallbackUnguarded(st, id) ==
  LET s1 == [st EXCEPT !.primitivePendingUpdate = FALSE] IN
  IF Len(s1.geometries) = 0
  THEN RemovePrimitive(s1, id)
  ELSE StartCreation(s1, id)

\* variant: a timer that fires during a creation is dropped, not retried
RebuildCallbackDropsWhenBlocked(st, id) ==
  IF st.primitivePendingCreation
  THEN [st EXCEPT !.onTick = RemoveEventListener(@, id)]
  ELSE LET s1 == [st EXCEPT !.primitivePendingUpdate = FALSE] IN
       IF Len(s1.geometries) = 0
       THEN RemovePrimitive(s1, id)
       ELSE StartCreation(s1, id)

\* lines 117-162: the callback the debounce timer invokes
RebuildCallback(st, id) ==
  IF st.primitivePendingCreation
  THEN NoteBlocked(st)
  ELSE LET s1 == [st EXCEPT !.primitivePendingUpdate = FALSE] IN
       IF Len(s1.geometries) = 0
       THEN RemovePrimitive(s1, id)
       ELSE StartCreation(s1, id)

(* ----------------------- CesiumCallbackHelper ------------------------- *)
\* what is observed of periodic callback r: kind "everyTicks" or "everyTime";
\* rate: its refreshRate; selfCancel: the callback invokes its own cancel
\* handle; handle: the listener the returned removal function removes;
\* seen: ticks raised since it registered; calls: invocations (both saturate
\* at SeenCap); prevRef: lastUpdated when the latest tick began; active: the
\* listener was registered when it began; callsNow: invocations during it;
\* ticksAfter: the listener's counter after it; prevJump: the tick before
\* fired for a forward jump of more than rate, at time jumpAt; due: a tick
\* came on which the callback was due while its listener was removed;
\* cancels: invocations of the cancel handle (2: two or more); unfired: the
\* first of them came before any invocation; callAfterCancel: the callback
\* was invoked after a cancel returned; throws: the callback throws whenever
\* it is invoked; since: ticks begun since the latest invocation of a throwing
\* callback (saturating); early: it was invoked fewer than rate ticks after
\* its previous invocation
Periodic(kind, rate, selfCancel, handle, time) ==
  [kind |-> kind, rate |-> rate, selfCancel |-> selfCancel,
   handle |-> handle, seen |-> 0, calls |-> 0,
   prevRef |-> time, active |-> FALSE, callsNow |-> 0, ticksAfter |-> 0,
   prevJump |-> FALSE, jumpAt |-> 0, due |-> FALSE, cancels |-> 0,
   unfired |-> FALSE, callAfterCancel |-> FALSE, throws |-> FALSE,
   since |-> 0, early |-> FALSE]

\* ticks and invocations are counted for the tick-based callbacks
SeenCap(kind) == IF kind = "everyTicks" THEN MaxSeen ELSE 1

\* JulianDate.secondsDifference(left, right)
SecondsDifference(left, right) == left - right

\* Math.abs
Abs(x) == IF x < 0 THEN -x ELSE x

\* a listener id no removal function handed out so far refers to
NewHandle(st) ==
  LET used == Ids(st.onTick)
                \cup {st.periodic[r].handle : r \in 1..Len(st.periodic)}
  IN CHOOSE n \in 1..(Cardinality(used) + 1) : n \notin used

\* the cancel handle of periodic callback r has been invoked
NoteCancel(st, r) ==
  [st EXCEPT !.periodic[r].unfired =
                 IF st.periodic[r].cancels = 0
                 THEN st.periodic[r].calls = 0 ELSE @,
             !.periodic[r].cancels = Min(@ + 1, 2)]

\* variant: the returned handle removes nothing
CancelHandleKeepsListener(st, r) == NoteCancel(st, r)

\* variant: the returned handle clears the whole event
CancelHandleClearsEvent(st, r) ==
  NoteCancel([st EXCEPT !.onTick = <<>>], r)

\* the removal function event.addEventListener returned, invoked
CancelHandle(st, r) ==
  NoteCancel([st EXCEPT !.onTick =
                RemoveEventListener(@, st.periodic[r].handle)], r)

\* callback(time) of periodic callback r
UserCallback(st, r) ==
  LET s1 == [st EXCEPT !.periodic[r].calls =
                           Min(@ + 1, SeenCap(st.periodic[r].kind)),
                       !.periodic[r].callsNow = Min(@ + 1, 2),
                       !.periodic[r].callAfterCancel =
                           @ \/ st.periodic[r].cancels > 0,
                       !.periodic[r].early =
                           @ \/ (/\ st.periodic[r].throws
                                 /\ st.periodic[r].calls > 0
                                 /\ st.periodic[r].since < st.periodic[r].rate),
                       !.periodic[r].since = 0]
  IN IF s1.periodic[r].throws THEN [s1 EXCEPT !.h.thrown = TRUE]
     ELSE IF s1.periodic[r].selfCancel THEN CancelHandle(s1, r) ELSE s1

\* the callback argument of createPeriodicTickCallback
PeriodicCallback(st, id) ==
  LET l == Lookup(st.onTick, id) IN
  IF l.kind = "debounce" THEN RebuildCallback(st, id)
  ELSE UserCallback(st, l.reg)

\* the tick counter of periodic callback r after its listener ran
NoteTicks(st, r, ticks) ==
  IF r = 0 THEN st ELSE [st EXCEPT !.periodic[r].ticksAfter = ticks]

\* CesiumCallbackHelper.createPeriodicTickCallback: the listener it registers
PeriodicTickListener(st, id) ==
  LET l == Lookup(st.onTick, id) IN
  IF l.ticks < l.rate
  THEN NoteTicks([st EXCEPT !.onTick =
                    Replace(@, id, [l EXCEPT !.ticks = l.ticks + 1])],
                 l.reg, l.ticks + 1)
  ELSE LET s0 == PeriodicCallback(st, id)
           s1 == NoteTicks(s0, l.reg, 0) IN
       IF s0.h.thrown THEN s0
       ELSE IF HasListener(s1.onTick, id)
       THEN [s1 EXCEPT !.onTick =
               Replace(@, id, [Lookup(s1.onTick, id) EXCEPT !.ticks = 0])]
       ELSE s1

\* variant: the difference is not made absolute
PeriodicTimeListenerSigned(st, id) ==
  LET l == Lookup(st.onTick, id)
      time == st.currentTime
      delta == SecondsDifference(time, l.lastUpdated)
  IN IF delta < l.rate
     THEN st
     ELSE LET s1 == UserCallback(st, l.reg) IN
          IF s1.h.thrown THEN s1
          ELSE IF HasListener(s1.onTick, id)
          THEN [s1 EXCEPT !.onTick =
                  Replace(@, id, [Lookup(s1.onTick, id) EXCEPT
                                    !.lastUpdated = time])]
          ELSE s1

\* variant: the reference advances by refreshRate instead of jumping to now
PeriodicTimeListenerFixedStep(st, id) ==
  LET l == Lookup(st.onTick, id)
      time == st.currentTime
      delta == Abs(SecondsDifference(time, l.lastUpdated))
  IN IF delta < l.rate
     THEN st
     ELSE LET s1 == UserCallback(st, l.reg) IN
          IF s1.h.thrown THEN s1
          ELSE IF HasListener(s1.onTick, id)
          THEN [s1 EXCEPT !.onTick =
                  Replace(@, id, [Lookup(s1.onTick, id) EXCEPT
                     !.lastUpdated = IF time > @ THEN @ + l.rate
                                     ELSE @ - l.rate])]
          ELSE s1

\* CesiumCallbackHelper.createPeriodicTimeCallback: the listener it registers
PeriodicTimeListener(st, id) ==
  LET l == Lookup(st.onTick, id)
      time == st.currentTime
      delta == Abs(SecondsDifference(time, l.lastUpdated))
  IN IF delta < l.rate
     THEN st
     ELSE LET s1 == UserCallback(st, l.reg) IN
          IF s1.h.thrown THEN s1
          ELSE IF HasListener(s1.onTick, id)
          THEN [s1 EXCEPT !.onTick =
                  Replace(@, id, [Lookup(s1.onTick, id) EXCEPT
                                    !.lastUpdated = time])]
          ELSE s1

\* createPeriodicTickCallback(viewer, refreshRate, callback) /
\* createPeriodicTimeCallback(viewer, refreshRate, callback)
CreatePeriodicCallback(st, kind, refreshRate, selfCancel) ==
  LET id == NewHandle(st)
      r == Len(st.periodic) + 1
      lastUpdated == IF kind = "everyTime" THEN st.currentTime ELSE 0
  IN [st EXCEPT
        !.periodic = Append(@, Periodic(kind, refreshRate, selfCancel, id,
                                        lastUpdated)),
        !.onTick = AddEventListener(@,
            [Listener(id, kind) EXCEPT !.reg = r, !.rate = refreshRate,
                                       !.lastUpdated = lastUpdated])]

\* createPeriodicTickCallback / createPeriodicTimeCallback with a callback
\* that throws
CreateThrowingPeriodicCallback(st, kind, refreshRate) ==
  LET s1 == CreatePeriodicCallback(st, kind, refreshRate, FALSE)
  IN [s1 EXCEPT !.periodic[Len(s1.periodic)].throws = TRUE]

\* lines 112-163: recreateGeometryInstancePrimitive
RecreateGeometryInstancePrimitive(st) ==
  IF st.primitivePendingUpdate
  THEN st
  ELSE LET id == NewId(st.onTick)
           s1 == NoteArmed(st, id)
       IN [s1 EXCEPT !.primitivePendingUpdate = TRUE,
                     !.onTick = AddEventListener(@,
                         [Listener(id, "debounce") EXCEPT
                            !.rate = DebounceTicks])]

\* geometries.push(component): seen by a candidate still holding the array
PushGeometry(st, name) ==
  [st EXCEPT !.geometries = Append(@, name),
             !.onTick = [i \in 1..Len(st.onTick) |->
                 IF st.onTick[i].prim.shared
                 THEN [st.onTick[i] EXCEPT !.prim.insts = Append(@, name)]
                 ELSE st.onTick[i]]]

\* geometries = geometries.filter(...): a new array replaces the static one
FilterGeometry(st, name) ==
  [st EXCEPT !.geometries = SelectSeq(@, LAMBDA g : g # name),
             !.onTick = [i \in 1..Len(st.onTick) |->
                 [st.onTick[i] EXCEPT !.prim.shared = FALSE]]]

\* variant: no check that the name is stored
EnableComponentUnchecked(st, name) ==
  LET s1 == IF name \in EntityNames /\ name \notin st.entities
            THEN [st EXCEPT !.entities = @ \cup {name}]
            ELSE IF name \in PrimitiveNames /\ name \notin st.primitives
            THEN [st EXCEPT !.primitives = @ \cup {name}]
            ELSE IF name \in Names
            THEN RecreateGeometryInstancePrimitive(
                   PushGeometry(NoteMutation(st), name))
            ELSE st
  IN IF s1.defaultEntity = Undefined
     THEN [s1 EXCEPT !.defaultEntity = name] ELSE s1

\* variant: defaultEntity follows the latest enabled component
EnableComponentLastDefault(st, name) ==
  IF name \notin st.components
  THEN st
  ELSE LET s1 == IF name \in EntityNames /\ name \notin st.entities
                 THEN [st EXCEPT !.entities = @ \cup {name}]
                 ELSE IF name \in PrimitiveNames
                         /\ name \notin st.primitives
                 THEN [st EXCEPT !.primitives = @ \cup {name}]
                 ELSE IF name \in Names
                 THEN RecreateGeometryInstancePrimitive(
                        PushGeometry(NoteMutation(st), name))
                 ELSE st
       IN [s1 EXCEPT !.defaultEntity = name]

\* lines 76-92: enableComponent(name)
EnableComponent(st, name) ==
  IF name \notin st.components
  THEN st
  ELSE LET s1 == IF name \in EntityNames /\ name \notin st.entities
                 THEN [st EXCEPT !.entities = @ \cup {name}]
                 ELSE IF name \in PrimitiveNames
                         /\ name \notin st.primitives
                 THEN [st EXCEPT !.primitives = @ \cup {name}]
                 ELSE IF name \in Names
                 THEN RecreateGeometryInstancePrimitive(
                        PushGeometry(NoteMutation(st), name))
                 ELSE st
       IN IF s1.defaultEntity = Undefined
          THEN [s1 EXCEPT !.defaultEntity = name] ELSE s1

\* variant: the entry is deleted whether the collection is lazy or not
DisableComponentAlwaysDeletes(st, name) ==
  IF name \notin st.components
  THEN st
  ELSE LET s1 == IF name \in EntityNames
                 THEN [st EXCEPT !.entities = @ \ {name}]
                 ELSE IF name \in PrimitiveNames
                 THEN [st EXCEPT !.primitives = @ \ {name}]
                 ELSE IF name \in Names
                 THEN RecreateGeometryInstancePrimitive(
                        FilterGeometry(NoteMutation(st), name))
                 ELSE st
       IN [s1 EXCEPT !.components = @ \ {name}]

\* lines 94-110: disableComponent(name)
DisableComponent(st, name) ==
  IF name \notin st.components
  THEN st
  ELSE LET s1 == IF name \in EntityNames
                 THEN [st EXCEPT !.entities = @ \ {name}]
                 ELSE IF name \in PrimitiveNames
                 THEN [st EXCEPT !.primitives = @ \ {name}]
                 ELSE IF name \in Names
                 THEN RecreateGeometryInstancePrimitive(
                        FilterGeometry(NoteMutation(st), name))
                 ELSE st
       IN IF s1.lazy THEN [s1 EXCEPT !.components = @ \ {name}] ELSE s1

RECURSIVE ShowAll(_, _)
\* lines 64-68: show(componentNames)
ShowAll(st, names) ==
  IF names = <<>> THEN st
  ELSE ShowAll(EnableComponent(st, Head(names)), Tail(names))

RECURSIVE HideAll(_, _)
\* lines 70-74: hide(componentNames)
HideAll(st, names) ==
  IF names = <<>> THEN st
  ELSE HideAll(DisableComponent(st, Head(names)), Tail(names))

\* variant: every stored Entity or Primitive component counts as visible
VisibleComponentsStored(st) ==
  {c \in st.components : c \in EntityNames \cup PrimitiveNames}

\* lines 169-179: get visibleComponents()
VisibleComponents(st) ==
  {c \in st.components :
     IF c \in EntityNames THEN c \in st.entities
     ELSE IF c \in PrimitiveNames THEN c \in st.primitives
     ELSE FALSE}

(* -------------- setSelectedOnTickCallback / setTracked... ------------- *)
\* what is observed of registration r: kind "selected" or "tracked";
\* ticked: onTickCallback ran; leaves: runs of onUnselect/onUntrack;
\* changes: raisings of its change event since it registered (2: two or
\* more); selChanged: the selection changed since it registered;
\* tickAfterLeave: onTickCallback ran after the leave callback; laterTick:
\* the clock ticked after its change event was raised
Registration(kind) == [kind |-> kind, ticked |-> FALSE, leaves |-> 0,
                       changes |-> 0, selChanged |-> FALSE,
                       tickAfterLeave |-> FALSE, laterTick |-> FALSE]

EventListeners(st, event) ==
  IF event = "selected" THEN st.selectedEntityChanged
  ELSE st.trackedEntityChanged

WithEventListeners(st, event, ls) ==
  IF event = "selected" THEN [st EXCEPT !.selectedEntityChanged = ls]
  ELSE [st EXCEPT !.trackedEntityChanged = ls]

\* lines 213-215 / 224-226: the per-tick listener calls onTickCallback(clock)
OnTickListener(st, id) ==
  LET r == Lookup(st.onTick, id).reg IN
  [st EXCEPT !.regs[r].ticked = TRUE,
             !.regs[r].tickAfterLeave = @ \/ st.regs[r].leaves > 0]

\* variant: the change listener does not remove itself
LeaveListenerKeepsSelf(st, event, id) ==
  LET l == Lookup(EventListeners(st, event), id)
      s1 == [st EXCEPT !.onTick = RemoveEventListener(@, l.ticks)]
  IN [s1 EXCEPT !.regs[l.reg].leaves = Min(@ + 1, 2)]

\* variant: the change listener does not remove the tick listener
LeaveListenerKeepsTick(st, event, id) ==
  LET l == Lookup(EventListeners(st, event), id)
      s2 == WithEventListeners(st, event,
              RemoveEventListener(EventListeners(st, event), id))
  IN [s2 EXCEPT !.regs[l.reg].leaves = Min(@ + 1, 2)]

\* lines 216-220 / 227-231: the change listener removes the tick listener
\* and itself, then calls onUnselectCallback / onUntrackCallback
LeaveListener(st, event, id) ==
  LET l == Lookup(EventListeners(st, event), id)
      s1 == [st EXCEPT !.onTick = RemoveEventListener(@, l.ticks)]
      s2 == WithEventListeners(s1, event,
              RemoveEventListener(EventListeners(s1, event), id))
  IN [s2 EXCEPT !.regs[l.reg].leaves = Min(@ + 1, 2)]

\* lines 212-221 / 223-232: both listeners of a registration are added; the
\* change listener keeps the tick listener's removal handle (field ticks)
AddOnTickCallback(st, kind, event) ==
  LET r == Len(st.regs) + 1
      tid == NewId(st.onTick)
      cid == NewId(EventListeners(st, event))
      s1 == [st EXCEPT !.regs = Append(@, Registration(kind)),
                       !.onTick = AddEventListener(@,
                           [Listener(tid, "regTick") EXCEPT !.reg = r])]
  IN WithEventListeners(s1, event,
       AddEventListener(EventListeners(s1, event),
           [Listener(cid, "leave") EXCEPT !.reg = r, !.ticks = tid]))

\* lines 212-221
SetSelectedOnTickCallbackOn(st) == AddOnTickCallback(st, "selected", "selected")

\* variant: the leave listener is put on selectedEntityChanged
SetTrackedOnTickCallbackOnSelection(st) ==
  AddOnTickCallback(st, "tracked", "selected")

\* lines 223-232
SetTrackedOnTickCallbackOn(st) == AddOnTickCallback(st, "tracked", "tracked")

RECURSIVE RaiseChanged(_, _, _)
\* Event.raiseEvent on selectedEntityChanged / trackedEntityChanged
RaiseChanged(st, event, ids) ==
  IF ids = <<>> THEN st
  ELSE RaiseChanged(IF HasListener(EventListeners(st, event), Head(ids))
                    THEN LeaveListener(st, event, Head(ids)) ELSE st,
                    event, Tail(ids))

\* the viewer's setter of selectedEntity / trackedEntity raises the change
\* event when the value changes
NoteChanged(st, event) ==
  [st EXCEPT !.regs = [r \in 1..Len(st.regs) |->
     [st.regs[r] EXCEPT
        !.changes = IF st.regs[r].kind = event THEN Min(@ + 1, 2) ELSE @,
        !.selChanged = @ \/ event = "selected"]]]

SetSelectedEntity(st, e) ==
  IF st.selectedEntity = e THEN st
  ELSE RaiseChanged(NoteChanged([st EXCEPT !.selectedEntity = e], "selected"),
                    "selected", IdSeq(st.selectedEntityChanged))

(* ------------------------------- track -------------------------------- *)
\* a viewer.flyTo promise of track(true): clockRunning as its handler holds
\* it; status "pending", "done" (resolved truthy) or "aborted" (resolved
\* falsy); observed: before (shouldAnimate when track was called), cause of
\* an abort ("host", "flyTo": a newer flight, "tracked": trackedEntity
\* assigned), the tracked entity and shouldAnimate when the handler began
\* (at...) and when it returned (end...), defaultEntity at that time
Flight(clockRunning, before) ==
  [clockRunning |-> clockRunning, status |-> "pending", before |-> before,
   cause |-> "none", atTracked |-> Undefined, atAnimate |-> FALSE,
   endTracked |-> Undefined, endAnimate |-> FALSE, endDefault |-> Undefined]

RECURSIVE FlyToResolved(_, _, _, _)

\* the viewer cancels the pending flight, whose promise resolves falsy
CancelZoom(st, cause) ==
  IF \E i \in 1..Len(st.flights) : st.flights[i].status = "pending"
  THEN FlyToResolved(st,
         CHOOSE i \in 1..Len(st.flights) : st.flights[i].status = "pending",
         FALSE, cause)
  ELSE st

\* the viewer's setter of trackedEntity: a changed value cancels the pending
\* flight and raises trackedEntityChanged
SetTrackedEntity(st, e) ==
  IF st.trackedEntity = e THEN st
  ELSE RaiseChanged(
         NoteChanged(CancelZoom([st EXCEPT !.trackedEntity = e], "tracked"),
                     "tracked"),
         "tracked", IdSeq(st.trackedEntityChanged))

\* variant: the handler does not look at the result
FlyToResolvedIgnoresResult(st, i, result, cause) ==
  LET s1 == [st EXCEPT !.flights[i].status =
                           IF result THEN "done" ELSE "aborted",
                       !.flights[i].cause = cause,
                       !.flights[i].atTracked = st.trackedEntity,
                       !.flights[i].atAnimate = st.shouldAnimate]
      s2 == [SetTrackedEntity(s1, s1.defaultEntity) EXCEPT
               !.shouldAnimate = s1.flights[i].clockRunning]
  IN [s2 EXCEPT !.flights[i].endTracked = s2.trackedEntity,
                !.flights[i].endAnimate = s2.shouldAnimate,
                !.flights[i].endDefault = s2.defaultEntity]

\* lines 204-209: .then((result) => {...}) of flight i
FlyToResolved(st, i, result, cause) ==
  LET s1 == [st EXCEPT !.flights[i].status =
                           IF result THEN "done" ELSE "aborted",
                       !.flights[i].cause = cause,
                       !.flights[i].atTracked = st.trackedEntity,
                       !.flights[i].atAnimate = st.shouldAnimate]
      s2 == IF result
            THEN [SetTrackedEntity(s1, s1.defaultEntity) EXCEPT
                    !.shouldAnimate = s1.flights[i].clockRunning]
            ELSE s1
  IN [s2 EXCEPT !.flights[i].endTracked = s2.trackedEntity,
                !.flights[i].endAnimate = s2.shouldAnimate,
                !.flights[i].endDefault = s2.defaultEntity]

\* viewer.flyTo(this.defaultEntity, ...): a newer flight cancels the pending
FlyTo(st, clockRunning, before) ==
  [CancelZoom(st, "flyTo") EXCEPT
     !.flights = Append(@, Flight(clockRunning, before))]

\* variant: clockRunning is read after the clock was paused
TrackReadsClockLate(st, animate) ==
  IF st.defaultEntity = Undefined THEN st
  ELSE IF ~animate THEN SetTrackedEntity(st, st.defaultEntity)
  ELSE LET s1 == SetTrackedEntity(st, Undefined)
           s2 == [s1 EXCEPT !.shouldAnimate = FALSE]
           clockRunning == s2.shouldAnimate
       IN FlyTo(s2, clockRunning, st.shouldAnimate)

\* lines 189-210: track(animate)
Track(st, animate) ==
  IF st.defaultEntity = Undefined THEN st
  ELSE IF ~animate THEN SetTrackedEntity(st, st.defaultEntity)
  ELSE LET s1 == SetTrackedEntity(st, Undefined)
           clockRunning == s1.shouldAnimate
           s2 == [s1 EXCEPT !.shouldAnimate = FALSE]
       IN FlyTo(s2, clockRunning, st.shouldAnimate)

(* ------------------- static properties and subclasses ----------------- *)
\* two subclasses of CesiumComponentCollection
Subclasses == {"S1", "S2"}

\* the subclass whose collection stores geometry component g
Owner(g) == IF g = "A" THEN "S1" ELSE "S2"

\* a batched primitive of a class: array: the array object passed as
\* geometryInstances; insts: the instances read from it by the first update;
\* read: that update has run; built: there is one
NoBatch == [built |-> FALSE, array |-> 0, insts |-> <<>>, read |-> FALSE]

\* lines 38-44: the static fields are properties of the base class; a
\* subclass has none of its own until one is assigned through
\* this.constructor. arrays: the array objects (arrays[1]: the one of
\* `static geometries = []`); geometries[c]: the array the own property of
\* class c refers to (0: no own property); the other fields: the value read
\* through class c (the base class keeps false/undefined, nothing assigns to
\* it); debounce[c]: registered debounce listeners of class c
InitStatics ==
  [arrays |-> << <<>> >>,
   geometries |-> [c \in Subclasses |-> 0],
   primitivePendingUpdate |-> [c \in Subclasses |-> FALSE],
   primitivePendingCreation |-> [c \in Subclasses |-> FALSE],
   primitive |-> [c \in Subclasses |-> NoBatch],
   candidate |-> [c \in Subclasses |-> NoBatch],
   debounce |-> [c \in Subclasses |-> 0],
   calls |-> 0]

\* this.constructor.geometries read through class c: its own property, or
\* the base class's array found on the prototype chain
StaticGeometries(s, c) ==
  IF s.geometries[c] = 0 THEN 1 ELSE s.geometries[c]

\* lines 112-117: recreateGeometryInstancePrimitive up to the registration
ClassRecreate(s, c) ==
  IF s.primitivePendingUpdate[c] THEN s
  ELSE [s EXCEPT !.primitivePendingUpdate[c] = TRUE,
                 !.debounce[c] = @ + 1]

\* lines 85-88: this.constructor.geometries.push(component) changes the
\* array the read finds
ClassEnableGeometry(s, c, g) ==
  ClassRecreate(
    [s EXCEPT !.arrays[StaticGeometries(s, c)] = Append(@, g),
              !.calls = @ + 1], c)

\* lines 103-106: this.constructor.geometries = ...filter(...) assigns a new
\* array to an own property of the class
ClassDisableGeometry(s, c, g) ==
  LET filtered == SelectSeq(s.arrays[StaticGeometries(s, c)],
                            LAMBDA x : x # g)
  IN ClassRecreate(
       [s EXCEPT !.arrays = Append(@, filtered),
                 !.geometries[c] = Len(s.arrays) + 1,
                 !.calls = @ + 1], c)

\* lines 118-161: the debounce callback of a collection of class c
ClassRebuildCallback(s, c) ==
  IF s.primitivePendingCreation[c] THEN s
  ELSE LET s1 == [s EXCEPT !.primitivePendingUpdate[c] = FALSE] IN
       IF s1.arrays[StaticGeometries(s1, c)] = <<>>
       THEN [s1 EXCEPT !.primitive[c] = NoBatch]
       ELSE [s1 EXCEPT !.primitivePendingCreation[c] = TRUE,
                       !.candidate[c] =
                          [NoBatch EXCEPT !.built = TRUE,
                                          !.array = StaticGeometries(s1, c)],
                       !.debounce[c] = @ - 1]

\* lines 135-160: the readiness poll of class c: the first update reads the
\* instances from the array, the ready candidate becomes the class's
\* primitive
ClassReadyCallback(s, c) ==
  LET p == s.candidate[c] IN
  IF ~p.read
  THEN [s EXCEPT !.candidate[c].insts = s.arrays[p.array],
                 !.candidate[c].read = TRUE]
  ELSE [s EXCEPT !.primitive[c] = p,
                 !.candidate[c] = NoBatch,
                 !.primitivePendingCreation[c] = FALSE]

(* ------------------------------ URL sync ------------------------------ *)
\* a string is a sequence of characters; the words "Point" and "Label"
\* stand for runs of letters, which hold none of the other characters
Chars == {"Point", " ", "-", ",", "~"}

RECURSIVE SeqsUpTo(_, _)
\* the sequences over S of length n or less
SeqsUpTo(S, n) ==
  IF n = 0 THEN {<<>>}
  ELSE LET shorter == SeqsUpTo(S, n - 1)
       IN shorter \cup {Append(q, x) : q \in shorter, x \in S}

\* the lists of n names or less a store field may be given
Lists(n) == SeqsUpTo(SeqsUpTo(Chars, MaxNameLen), n)

RECURSIVE Join(_, _)
\* Array.prototype.join
Join(v, separator) ==
  IF v = <<>> THEN <<>>
  ELSE IF Len(v) = 1 THEN v[1]
  ELSE v[1] \o <<separator>> \o Join(Tail(v), separator)

\* String.prototype.replaceAll of one character by another
ReplaceAll(str, from, to) ==
  [i \in 1..Len(str) |-> IF str[i] = from THEN to ELSE str[i]]

RECURSIVE Split(_, _)
\* String.prototype.split: the pieces between the separators, one more than
\* there are separators
Split(str, separator) ==
  IF \A i \in 1..Len(str) : str[i] # separator THEN <<str>>
  ELSE LET k == CHOOSE i \in 1..Len(str) :
                  /\ str[i] = separator
                  /\ \A j \in 1..(i - 1) : str[j] # separator
       IN <<SubSeq(str, 1, k - 1)>>
            \o Split(SubSeq(str, k + 1, Len(str)), separator)

\* part_001 lines 20-38: the urlsync config entries of the three list
\* fields; sep: the character serialize puts for a space
SyncConfig ==
  <<[name |-> "enabledComponents", url |-> "elements", sep |-> "-"],
    [name |-> "enabledSatellites", url |-> "sats", sep |-> "~"],
    [name |-> "enabledTags", url |-> "tags", sep |-> "-"]>>

\* part_001 lines 9-17: state()
StoreState ==
  [enabledComponents |-> << <<"Point">>, <<"Label">> >>,
   enabledSatellites |-> <<>>,
   enabledTags |-> <<>>]

\* serialize: (v) => v.join(",").replaceAll(" ", sep)
Serialize(config, v) == ReplaceAll(Join(v, ","), " ", config.sep)

\* variant: the empty pieces are kept
DeserializeKeepsEmpty(config, str) ==
  Split(ReplaceAll(str, config.sep, " "), ",")

\* deserialize: (v) => v.replaceAll(sep, " ").split(",").filter((e) => e)
Deserialize(config, str) ==
  SelectSeq(Split(ReplaceAll(str, config.sep, " "), ","),
            LAMBDA e : e # <<>>)

\* a query parameter that is not in the URL
NoParam == [present |-> FALSE, value |-> <<>>]

\* the page as loaded without query: store: the sat store; defaults:
\* store.defaults; query: the URL's parameters; patches, loads: store
\* mutations and page loads so far; before: the store as the latest
\* mutation left it
InitUrlSync ==
  [store |-> StoreState, defaults |-> StoreState,
   query |-> [elements |-> NoParam, sats |-> NoParam, tags |-> NoParam],
   patches |-> 0, loads |-> 1, before |-> StoreState]

RECURSIVE StateToUrl(_, _)
\* pinia-plugin-url-sync.ts lines 65-83: stateToUrl, for the entries of
\* configs
StateToUrl(u, configs) ==
  IF configs = <<>> THEN u
  ELSE LET config == Head(configs)
           value == u.store[config.name]
           param == config.url
           u1 == IF Serialize(config, u.defaults[config.name])
                      = Serialize(config, value)
                 THEN [u EXCEPT !.query[param] = NoParam]
                 ELSE [u EXCEPT !.query[param] =
                         [present |-> TRUE,
                          value |-> Serialize(config, value)]]
       IN StateToUrl(u1, Tail(configs))

RECURSIVE UrlToState(_, _)
\* pinia-plugin-url-sync.ts lines 38-62: urlToState, for the entries of
\* configs (no custom app config, no validation function)
UrlToState(u, configs) ==
  IF configs = <<>> THEN u
  ELSE LET config == Head(configs)
           param == config.url
           u1 == [u EXCEPT !.defaults[config.name] = u.store[config.name]]
           u2 == IF ~u1.query[param].present THEN u1
                 ELSE [u1 EXCEPT !.store[config.name] =
                         Deserialize(config, u1.query[param].value)]
       IN UrlToState(u2, Tail(configs))

\* the store is mutated: the subscription of line 97 runs stateToUrl
Patch(u, name, v) ==
  StateToUrl([u EXCEPT !.store[name] = v, !.before[name] = v,
                       !.patches = @ + 1], SyncConfig)

\* the page is loaded with the URL as it stands: a new store, urlToState
\* (lines 92-94), and stateToUrl if that assigned to the store
Load(u) ==
  LET u0 == [u EXCEPT !.store = StoreState, !.loads = @ + 1]
      u1 == UrlToState(u0, SyncConfig)
  IN IF \E i \in 1..Len(SyncConfig) : u0.query[SyncConfig[i].url].present
     THEN StateToUrl(u1, SyncConfig) ELSE u1

(* ----------------------------- PushManager --------------------------- *)
\* instants of the wall clock and target dates, in milliseconds
Instants == {0, 5000, 14500, 15000, 25000}

\* lines 18-21: the constructor; timers: this.timers, entries [id, date];
\* now: the wall clock; timeouts: the host's pending setTimeout timers,
\* [id, due]; lookups: timers that fired and called persistentNotification,
\* whose getRegistration() promise is pending; shown: showNotification was
\* called for them; calls: notifyAtDate calls so far. Observed: last: the
\* latest call (op "none", "notify" or "clear"; date: its argument; at: the
\* clock then; added: it pushed an entry); stale: the ids that were in the
\* list at a clearTimers call and not shown then; cancelled: those of them
\* whose timeout was pending then
InitPushManager ==
  [timers |-> <<>>, now |-> 5000, timeouts |-> {}, lookups |-> {},
   shown |-> {}, calls |-> 0,
   last |-> [op |-> "none", date |-> 0, at |-> 0, added |-> FALSE],
   stale |-> {}, cancelled |-> {}]

\* a.diff(b, "seconds") of dayjs: the difference in whole seconds, truncated
\* toward zero
DiffSeconds(a, b) ==
  LET d == a - b IN IF d < 0 THEN -((-d) \div 1000) ELSE d \div 1000

\* lines 50-52: get active
Active(pm) == Len(pm.timers) > 0

\* variant: the list is emptied, the timeouts are left running
ClearTimersKeepsTimeouts(pm) ==
  LET ids == {pm.timers[i].id : i \in 1..Len(pm.timers)} IN
  [pm EXCEPT
     !.timers = <<>>,
     !.last = [op |-> "clear", date |-> 0, at |-> pm.now, added |-> FALSE],
     !.stale = @ \cup (ids \ pm.shown),
     !.cancelled = @ \cup {t.id : t \in {u \in pm.timeouts : u.id \in ids}}]

\* lines 54-59: clearTimers()
ClearTimers(pm) ==
  LET ids == {pm.timers[i].id : i \in 1..Len(pm.timers)} IN
  [pm EXCEPT
     !.timeouts = {t \in @ : t.id \notin ids},
     !.timers = <<>>,
     !.last = [op |-> "clear", date |-> 0, at |-> pm.now, added |-> FALSE],
     !.stale = @ \cup (ids \ pm.shown),
     !.cancelled = @ \cup {t.id : t \in {u \in pm.timeouts : u.id \in ids}}]

\* lines 83-112: notifyAtDate(date, message, options), notifications
\* available and no webkit bridge; setTimeout returns a fresh id
NotifyAtDate(pm, date) ==
  LET waitMs == date - pm.now
      p0 == [pm EXCEPT
               !.calls = @ + 1,
               !.last = [op |-> "notify", date |-> date, at |-> pm.now,
                         added |-> FALSE]]
      id == pm.calls + 1
  IN IF waitMs < 0 THEN p0
     ELSE IF \E i \in 1..Len(pm.timers) :
                Abs(DiffSeconds(pm.timers[i].date, date)) < 10
     THEN p0
     ELSE [p0 EXCEPT
             !.timeouts = @ \cup {[id |-> id, due |-> pm.now + waitMs]},
             !.timers = Append(@, [id |-> id, date |-> date]),
             !.last.added = TRUE]

\* line 105: the timeout callback runs; lines 61-69: persistentNotification
\* asks for the service worker registration
TimeoutCallback(pm, id) ==
  [pm EXCEPT !.timeouts = {t \in @ : t.id # id},
             !.lookups = @ \cup {id}]

\* line 68: .then((reg) => reg.showNotification(message, optionsMerged))
ShowNotification(pm, id) ==
  [pm EXCEPT !.lookups = @ \ {id}, !.shown = @ \cup {id}]

(* -------------------------- CesiumController -------------------------- *)
\* lines 226-228: get imageryProviderNames()
ImageryProviderNames == DOMAIN ImageryProviders

\* lines 271-273: get terrainProviderNames()
TerrainProviderNames ==
  {n \in DOMAIN TerrainProviders : TerrainProviders[n].visible}

\* console.error(message)
ConsoleError(st, message) ==
  [st EXCEPT !.consoleErrors = Append(@, message)]

\* an assignment to imageryLayers / terrainProvider has run
NoteAssigned(st, unknown) ==
  [st EXCEPT !.h.aflip = ~@,
             !.h.assigned = IF unknown THEN "unknown" ELSE "known"]

\* lines 251-253: clearImageryLayers()
ClearImageryLayers(st) == [st EXCEPT !.imageryLayers = <<>>]

\* lines 243-247: one layer name of the list: split it, create the layer
\* (createImageryLayer, lines 255-269) and add it if one was returned
AddImageryLayer(st, layerName) ==
  LET name == layerName[1]
      alpha == IF Len(layerName) > 1 THEN layerName[2] ELSE Undefined
  IN IF name \notin ImageryProviderNames
     THEN ConsoleError(st, "Unknown imagery layer")
     ELSE [st EXCEPT !.imageryLayers = Append(@,
             [provider |-> name,
              alpha |-> IF alpha = Undefined
                        THEN ImageryProviders[name].alpha ELSE alpha])]

RECURSIVE AddImageryLayers(_, _)
\* lines 242-248: newLayerNames.forEach(...)
AddImageryLayers(st, names) ==
  IF names = <<>> THEN st
  ELSE AddImageryLayers(AddImageryLayer(st, Head(names)), Tail(names))

\* lines 240-249: set imageryLayers(newLayerNames)
SetImageryLayers(st, newLayerNames) ==
  AddImageryLayers(ClearImageryLayers(st), newLayerNames)

\* lines 275-285: set terrainProvider(name) / updateTerrainProvider up to
\* its await
UpdateTerrainProvider(st, terrainProviderName) ==
  IF terrainProviderName \notin TerrainProviderNames
  THEN ConsoleError(st, "Unknown terrain provider")
  ELSE [st EXCEPT !.terrainCreating = Append(@, terrainProviderName),
                  !.h.requested = terrainProviderName]

\* the await of line 285 on a value that is not a promise continues as a
\* microtask, in the order of the calls and before any promise of a
\* provider that is fetched resolves: the pending requests that may
\* continue next
Resolvable(st) ==
  LET pending == st.terrainCreating
      sync == {i \in 1..Len(pending) : TerrainProviders[pending[i]].sync}
  IN IF sync = {} THEN 1..Len(pending)
     ELSE {CHOOSE i \in sync : \A j \in sync : i <= j}

\* lines 285-286: create() of pending request i has resolved
TerrainProviderResolved(st, i) ==
  [st EXCEPT !.terrainProvider = st.terrainCreating[i],
             !.terrainCreating =
                SubSeq(@, 1, i - 1) \o SubSeq(@, i + 1, Len(@))]

(* --------------------------- clock.onTick ----------------------------- *)
\* the clock, at time now, is about to raise onTick at time time
NoteTick(st, now, time) ==
  [st EXCEPT
     !.h.emptied = "no", !.h.rendered = FALSE, !.h.swap = NoSwap,
     !.h.mutated = FALSE, !.h.thrown = FALSE,
     !.h.pollDue = Len(OfKind(st.onTick, "ready")),
     !.h.polls = 0,
     !.regs = [r \in 1..Len(st.regs) |->
       [st.regs[r] EXCEPT !.laterTick = @ \/ st.regs[r].changes > 0]],
     !.periodic = [r \in 1..Len(st.periodic) |->
       LET p == st.periodic[r]
           on == HasListener(st.onTick, p.handle)
           jump == on /\ p.active /\ p.callsNow > 0
                     /\ now - p.prevRef > p.rate
       IN [p EXCEPT
             !.seen = Min(@ + 1, SeenCap(p.kind)),
             !.prevJump = jump,
             !.jumpAt = IF jump THEN now ELSE 0,
             !.active = on,
             !.prevRef = IF on THEN Lookup(st.onTick, p.handle).lastUpdated
                         ELSE @,
             !.due = @ \/ (~on /\ IF p.kind = "everyTicks"
                                   THEN p.seen >= p.rate
                                   ELSE Abs(time - p.prevRef) >= p.rate),
             !.since = IF p.throws /\ p.calls > 0
                       THEN Min(@ + 1, MaxRate + 1) ELSE 0,
             !.callsNow = 0]]]

CallListener(st, id) ==
  LET l == Lookup(st.onTick, id) IN
  IF l.kind \in {"debounce", "everyTicks"} THEN PeriodicTickListener(st, id)
  ELSE IF l.kind = "everyTime" THEN PeriodicTimeListener(st, id)
  ELSE IF l.kind = "ready" THEN ReadyCallback(st, id)
  ELSE OnTickListener(st, id)

RECURSIVE RaiseOnTick(_, _)
\* Event.raiseEvent: the listeners registered when the event is raised, in
\* registration order; one removed meanwhile is skipped, and an exception a
\* listener throws leaves raiseEvent at once
RaiseOnTick(st, ids) ==
  IF ids = <<>> \/ st.h.thrown THEN st
  ELSE Only({RaiseOnTick(s1, Tail(ids)) :
               s1 \in {IF HasListener(st.onTick, Head(ids))
                       THEN CallListener(st, Head(ids)) ELSE st}})

(* ------------------------------ actions ------------------------------- *)
\* the state after construction, with calls show/hide calls to come
Start(calls) ==
  /\ components = Names
  /\ lazy \in BOOLEAN
  /\ geometries = <<>>
  /\ primitive = NoPrimitive
  /\ primitivePendingUpdate = FALSE
  /\ primitivePendingCreation = FALSE
  /\ scenePrimitives = {}
  /\ onTick = <<>>
  /\ currentTime = 0
  /\ shouldAnimate \in BOOLEAN
  /\ selectedEntity = Undefined
  /\ trackedEntity = Undefined
  /\ selectedEntityChanged = <<>>
  /\ trackedEntityChanged = <<>>
  /\ regs = <<>>
  /\ entities = {}
  /\ primitives = {}
  /\ defaultEntity = Undefined
  /\ flights = <<>>
  /\ periodic = <<>>
  /\ imageryLayers = <<[provider |-> "OfflineHighres", alpha |-> "1"]>>
  /\ terrainProvider = DefaultTerrain
  /\ terrainCreating = <<>>
  /\ consoleErrors = <<>>
  /\ statics = InitStatics
  /\ pushManager = InitPushManager
  /\ urlSync = InitUrlSync
  /\ callsLeft = calls
  /\ h = InitHistory

Init == Start(MaxCalls)

\* Clock.tick: a running clock moves currentTime (forward or, with a negative
\* multiplier, backward), a paused one keeps it; then onTick is raised
Tick ==
  \E t \in (IF shouldAnimate THEN Times ELSE {currentTime}) :
    \E st \in {RaiseOnTick(
                 NoteTick([Cur EXCEPT !.currentTime = t], currentTime, t),
                 IdSeq(onTick))} :
      /\ Commit(st)
      /\ UNCHANGED callsLeft

\* collection.show(names)
Show ==
  \E names \in NameLists :
    LET st == ShowAll(Cur, names) IN
    /\ callsLeft > 0
    /\ Len(st.geometries) <= MaxGeoms
    /\ st.geometries # geometries
    /\ Commit(NoteShown(Cur, st, "show", names))
    /\ callsLeft' = callsLeft - 1

\* collection.hide(names)
Hide ==
  \E names \in NameLists :
    LET st == HideAll(Cur, names) IN
    /\ callsLeft > 0
    /\ \E i \in 1..Len(names) : names[i] \in components
    /\ Commit(NoteShown(Cur, st, "hide", names))
    /\ callsLeft' = callsLeft - 1

\* the component factory of the owning object stores a component
\* (createCesiumEntity: this.components[componentName] = entity)
CreateComponent ==
  \E name \in ComponentNames \ components :
    /\ components' = components \cup {name}
    /\ h' = NoteOther(h)
    /\ UNCHANGED <<statics, pushManager, urlSync>>
    /\ UNCHANGED <<lazy, geometries, primitive, primitivePendingUpdate,
                   primitivePendingCreation, scenePrimitives, onTick,
                   currentTime, shouldAnimate, selectedEntity, trackedEntity,
                   selectedEntityChanged, trackedEntityChanged, regs,
                   entities, primitives, defaultEntity, flights, periodic,
                   imageryLayers, terrainProvider, terrainCreating,
                   consoleErrors,
                   callsLeft>>

\* a geometry worker of the candidate finishes: CREATING -> CREATED,
\* COMBINING -> COMBINED
PrimitiveWorkerDone ==
  \E i \in 1..Len(onTick) :
    /\ onTick[i].kind = "ready"
    /\ onTick[i].prim.state \in {1, 3}
    /\ onTick' = [onTick EXCEPT ![i].prim.state = @ + 1]
    /\ UNCHANGED <<statics, pushManager, urlSync>>
    /\ UNCHANGED <<components, lazy, geometries, primitive,
                   primitivePendingUpdate, primitivePendingCreation,
                   scenePrimitives, currentTime, shouldAnimate, selectedEntity,
                   trackedEntity, selectedEntityChanged, trackedEntityChanged,
                   regs, entities, primitives, defaultEntity, flights,
                   periodic,
                   imageryLayers, terrainProvider, terrainCreating,
                   consoleErrors, callsLeft, h>>

\* collection.setSelectedOnTickCallback(onTick, onUnselect)
SetSelectedOnTickCallback ==
  /\ Len(regs) < MaxRegs
  /\ Commit(SetSelectedOnTickCallbackOn(Cur))
  /\ UNCHANGED callsLeft

\* collection.setTrackedOnTickCallback(onTick, onUntrack)
SetTrackedOnTickCallback ==
  /\ Len(regs) < MaxRegs
  /\ Commit(SetTrackedOnTickCallbackOn(Cur))
  /\ UNCHANGED callsLeft

\* the user selects another entity, or none
SelectEntity ==
  \E e \in (Entities \cup {Undefined}) \ {selectedEntity} :
    /\ Commit(SetSelectedEntity(Cur, e))
    /\ UNCHANGED callsLeft

\* another entity, or none, becomes the tracked one
TrackEntity ==
  \E e \in (Entities \cup {Undefined}) \ {trackedEntity} :
    /\ Commit(SetTrackedEntity(Cur, e))
    /\ UNCHANGED callsLeft

\* the orders in which Object.keys can list the stored components
Orderings(S) ==
  {seq \in [1..Cardinality(S) -> S] :
     \A i, j \in 1..Cardinality(S) : seq[i] = seq[j] => i = j}

\* arguments of show/hide: the default (all stored names), one stored or
\* storable name, or a name that is not stored
CallArgs ==
  {[default |-> TRUE, names |-> seq] : seq \in Orderings(components)}
    \cup {[default |-> FALSE, names |-> <<n>>] :
             n \in ComponentNames \cup {UnknownName}}

\* collection.show() / collection.show([name])
ShowNames ==
  \E arg \in CallArgs :
    LET st == ShowAll(Cur, arg.names) IN
    /\ callsLeft > 0
    /\ Len(st.geometries) <= MaxGeoms
    /\ Commit(NoteCall(Cur, st, "show", arg))
    /\ callsLeft' = callsLeft - 1

\* collection.hide() / collection.hide([name])
HideNames ==
  \E arg \in CallArgs :
    /\ callsLeft > 0
    /\ Commit(NoteCall(Cur, HideAll(Cur, arg.names), "hide", arg))
    /\ callsLeft' = callsLeft - 1

\* another owner adds an object to the scene: a stored component or one of
\* its own
SceneAdd ==
  /\ \/ \E c \in ((components \cap EntityNames) \cup {Foreign}) \ entities :
          entities' = entities \cup {c} /\ UNCHANGED primitives
     \/ \E c \in ((components \cap PrimitiveNames) \cup {Foreign})
                  \ primitives :
          primitives' = primitives \cup {c} /\ UNCHANGED entities
  /\ h' = NoteOther(h)
  /\ UNCHANGED <<statics, pushManager, urlSync>>
  /\ UNCHANGED <<components, lazy, geometries, primitive,
                 primitivePendingUpdate, primitivePendingCreation,
                 scenePrimitives, onTick, currentTime, shouldAnimate,
                 selectedEntity, trackedEntity, selectedEntityChanged,
                 trackedEntityChanged, regs, defaultEntity, flights, periodic,
                   imageryLayers, terrainProvider, terrainCreating,
                   consoleErrors,
                 callsLeft>>

\* another owner removes an object from the scene
SceneRemove ==
  /\ \/ \E c \in entities :
          entities' = entities \ {c} /\ UNCHANGED primitives
            /\ h' = [NoteOther(h) EXCEPT !.bypassed = @ \/ c \in components]
     \/ \E c \in primitives :
          primitives' = primitives \ {c} /\ UNCHANGED entities
            /\ h' = [NoteOther(h) EXCEPT !.bypassed = @ \/ c \in components]
  /\ UNCHANGED <<statics, pushManager, urlSync>>
  /\ UNCHANGED <<components, lazy, geometries, primitive,
                 primitivePendingUpdate, primitivePendingCreation,
                 scenePrimitives, onTick, currentTime, shouldAnimate,
                 selectedEntity, trackedEntity, selectedEntityChanged,
                 trackedEntityChanged, regs, defaultEntity, flights, periodic,
                   imageryLayers, terrainProvider, terrainCreating,
                   consoleErrors,
                 callsLeft>>

\* CesiumCallbackHelper.createPeriodicTickCallback(viewer, n, callback)
CreatePeriodicTickCallback ==
  \E n \in 1..MaxRate, selfCancel \in BOOLEAN :
    /\ Len(periodic) < MaxPeriodic
    /\ Commit(CreatePeriodicCallback(Cur, "everyTicks", n, selfCancel))
    /\ UNCHANGED callsLeft

\* CesiumCallbackHelper.createPeriodicTimeCallback(viewer, seconds, callback)
CreatePeriodicTimeCallback ==
  \E n \in 1..MaxRate, selfCancel \in BOOLEAN :
    /\ Len(periodic) < MaxPeriodic
    /\ Commit(CreatePeriodicCallback(Cur, "everyTime", n, selfCancel))
    /\ UNCHANGED callsLeft

\* the caller invokes the cancel handle it retained
Cancel ==
  \E r \in 1..Len(periodic) :
    /\ periodic[r].cancels < 2
    /\ Commit(CancelHandle(Cur, r))
    /\ UNCHANGED callsLeft

NextBatch ==
  \/ Tick
  \/ Show
  \/ Hide
  \/ PrimitiveWorkerDone

\* a collection that keeps its components when they are hidden, the clock
\* paused
InitBatch == Init /\ lazy = FALSE /\ shouldAnimate = FALSE

SpecBatch == InitBatch /\ [][NextBatch]_vars

\* one show/hide call more than MaxCalls
InitBurst == Start(MaxCalls + 1) /\ lazy = FALSE /\ shouldAnimate = FALSE

SpecBurst == InitBurst /\ [][NextBatch]_vars

\* the same collection under a running clock
InitClock == Init /\ lazy = FALSE /\ shouldAnimate = TRUE

SpecClock == InitClock /\ [][NextBatch]_vars

\* the tick subscriptions of a collection
InitTrack == Init /\ lazy = TRUE /\ shouldAnimate = TRUE

NextTrack ==
  \/ Tick
  \/ SetSelectedOnTickCallback
  \/ SetTrackedOnTickCallback
  \/ SelectEntity
  \/ TrackEntity

SpecTrack == InitTrack /\ [][NextTrack]_vars

\* collection.track(animate)
TrackDefault ==
  \E animate \in BOOLEAN :
    /\ animate => Len(flights) < MaxTracks
    /\ Commit(Track(Cur, animate))
    /\ UNCHANGED callsLeft

\* the pending fly-to transition completes: its promise resolves truthy
FlyToComplete ==
  \E i \in 1..Len(flights) :
    /\ flights[i].status = "pending"
    /\ Commit(FlyToResolved(Cur, i, TRUE, "none"))
    /\ UNCHANGED callsLeft

\* the host aborts the pending fly-to transition: its promise resolves falsy
FlyToAbort ==
  \E i \in 1..Len(flights) :
    /\ flights[i].status = "pending"
    /\ Commit(FlyToResolved(Cur, i, FALSE, "host"))
    /\ UNCHANGED callsLeft

\* tracking with and without a fly-to transition, the clock running or not
InitFly == Init /\ lazy = TRUE

NextFly ==
  \/ ShowNames
  \/ CreateComponent
  \/ TrackDefault
  \/ FlyToComplete
  \/ FlyToAbort
  \/ TrackEntity

SpecFly == InitFly /\ [][NextFly]_vars

\* the components of a collection, lazy or not, and the scene
InitScene == Init /\ shouldAnimate = FALSE

NextScene ==
  \/ ShowNames
  \/ HideNames
  \/ CreateComponent
  \/ SceneAdd
  \/ SceneRemove

SpecScene == InitScene /\ [][NextScene]_vars

\* the same with one show/hide call more
InitStore == Start(MaxCalls + 1) /\ shouldAnimate = FALSE

SpecStore == InitStore /\ [][NextScene]_vars

\* the periodic callbacks of CesiumCallbackHelper under a running clock
\* show of its geometry component on a collection of class c
ClassShow ==
  \E g \in Names :
    /\ statics.calls < MaxClassCalls
    /\ statics' = ClassEnableGeometry(statics, Owner(g), g)
    /\ UNCHANGED <<sceneVars, pushManager, urlSync>>

\* hide of its geometry component on a collection of class c
ClassHide ==
  \E g \in Names :
    /\ statics.calls < MaxClassCalls
    /\ statics' = ClassDisableGeometry(statics, Owner(g), g)
    /\ UNCHANGED <<sceneVars, pushManager, urlSync>>

\* a debounce listener of class c fires
ClassDebounce ==
  \E c \in Subclasses :
    /\ statics.debounce[c] > 0
    /\ statics' = ClassRebuildCallback(statics, c)
    /\ UNCHANGED <<sceneVars, pushManager, urlSync>>

\* the readiness poll of class c runs
ClassPoll ==
  \E c \in Subclasses :
    /\ statics.candidate[c].built
    /\ statics' = ClassReadyCallback(statics, c)
    /\ UNCHANGED <<sceneVars, pushManager, urlSync>>

\* pushManager.notifyAtDate(date, ...)
NotifyAt ==
  \E date \in Instants :
    /\ pushManager.calls < MaxNotify
    /\ pushManager' = NotifyAtDate(pushManager, date)
    /\ UNCHANGED <<sceneVars, statics, urlSync>>

\* pushManager.clearTimers()
ClearAll ==
  /\ pushManager' = ClearTimers(pushManager)
  /\ UNCHANGED <<sceneVars, statics, urlSync>>

\* the wall clock advances
TimePasses ==
  \E t \in Instants :
    /\ t > pushManager.now
    /\ pushManager' = [pushManager EXCEPT !.now = t]
    /\ UNCHANGED <<sceneVars, statics, urlSync>>

\* a timeout that is due fires
TimeoutFires ==
  \E t \in pushManager.timeouts :
    /\ t.due <= pushManager.now
    /\ pushManager' = TimeoutCallback(pushManager, t.id)
    /\ UNCHANGED <<sceneVars, statics, urlSync>>

\* a pending getRegistration() resolves
RegistrationResolved ==
  \E id \in pushManager.lookups :
    /\ pushManager' = ShowNotification(pushManager, id)
    /\ UNCHANGED <<sceneVars, statics, urlSync>>

\* a list field of the store is assigned
PatchStore ==
  /\ urlSync.patches < MaxPatches
  /\ \E i \in 1..Len(SyncConfig), v \in Lists(MaxListLen) :
       /\ urlSync' = Patch(urlSync, SyncConfig[i].name, v)
       /\ UNCHANGED <<sceneVars, statics, pushManager>>

\* the page is reloaded
Reload ==
  /\ urlSync.loads < MaxLoads
  /\ urlSync' = Load(urlSync)
  /\ UNCHANGED <<sceneVars, statics, pushManager>>

\* a periodic callback is registered whose callback throws
CreateThrowingCallback ==
  \E kind \in {"everyTicks", "everyTime"}, n \in 1..MaxRate :
    /\ Len(periodic) < MaxPeriodic
    /\ Commit(CreateThrowingPeriodicCallback(Cur, kind, n))
    /\ UNCHANGED callsLeft

NextPeriodic ==
  \/ Tick
  \/ CreatePeriodicTickCallback
  \/ CreatePeriodicTimeCallback
  \/ Cancel

SpecPeriodic == InitTrack /\ [][NextPeriodic]_vars

\* the lists of layer names a caller may assign
LayerNameLists ==
  UNION {[1..n -> LayerNames] : n \in 0..MaxLayers}

\* controller.imageryLayers = newLayerNames
AssignImageryLayers ==
  \E names \in LayerNameLists :
    \E st \in {SetImageryLayers(Cur, names)} :
      /\ Len(st.consoleErrors) <= MaxErrors
      /\ Commit(NoteAssigned(st,
            \E i \in 1..Len(names) :
               names[i][1] \notin ImageryProviderNames))
      /\ UNCHANGED callsLeft

\* controller.terrainProvider = name
AssignTerrainProvider ==
  \E name \in TerrainNames :
    \E st \in {UpdateTerrainProvider(Cur, name)} :
      /\ Len(st.consoleErrors) <= MaxErrors
      /\ Len(st.terrainCreating) <= MaxCreating
      /\ Commit(NoteAssigned(st, name \notin TerrainProviderNames))
      /\ UNCHANGED callsLeft

\* a pending create() of a terrain provider resolves
TerrainProviderCreated ==
  \E i \in Resolvable(Cur) :
    /\ Commit(TerrainProviderResolved(Cur, i))
    /\ UNCHANGED callsLeft

\* the imagery layers and the terrain provider of the controller
NextProviders ==
  \/ AssignImageryLayers
  \/ AssignTerrainProvider
  \/ TerrainProviderCreated

SpecProviders == InitBatch /\ [][NextProviders]_vars

\* the rebuild under the scheduling the host guarantees: frames keep coming
\* and the geometry workers finish
LiveBatch ==
  /\ InitBatch
  /\ [][NextBatch]_vars
  /\ WF_vars(Tick)
  /\ WF_vars(PrimitiveWorkerDone)

Next ==
  \/ Tick
  \/ Show
  \/ Hide
  \/ CreateComponent
  \/ PrimitiveWorkerDone
  \/ SetSelectedOnTickCallback
  \/ SetTrackedOnTickCallback
  \/ SelectEntity
  \/ TrackEntity
  \/ CreatePeriodicTickCallback
  \/ CreatePeriodicTimeCallback
  \/ Cancel
  \/ CreateThrowingCallback
  \/ ClassShow
  \/ ClassHide
  \/ ClassDebounce
  \/ ClassPoll
  \/ NotifyAt
  \/ ClearAll
  \/ TimePasses
  \/ TimeoutFires
  \/ RegistrationResolved
  \/ PatchStore
  \/ Reload
  \/ ShowNames
  \/ HideNames
  \/ SceneAdd
  \/ SceneRemove
  \/ TrackDefault
  \/ FlyToComplete
  \/ FlyToAbort
  \/ AssignImageryLayers
  \/ AssignTerrainProvider
  \/ TerrainProviderCreated

Spec == Init /\ [][Next]_vars

\* the batched primitives of two subclasses
NextClasses ==
  \/ ClassShow
  \/ ClassHide
  \/ ClassDebounce
  \/ ClassPoll

SpecClasses == InitBatch /\ [][NextClasses]_vars

\* a PushManager and the timers of its host
NextPush ==
  \/ NotifyAt
  \/ ClearAll
  \/ TimePasses
  \/ TimeoutFires
  \/ RegistrationResolved

SpecPush == InitBatch /\ [][NextPush]_vars

\* the sat store and the URL
NextUrl ==
  \/ PatchStore
  \/ Reload

SpecUrl == InitBatch /\ [][NextUrl]_vars

\* show, hide and track on one collection
NextDefault ==
  \/ ShowNames
  \/ HideNames
  \/ CreateComponent
  \/ TrackDefault
  \/ FlyToComplete

SpecDefault == InitScene /\ [][NextDefault]_vars

\* periodic callbacks, some of them throwing
NextThrow ==
  \/ Tick
  \/ CreatePeriodicTickCallback
  \/ CreateThrowingCallback

SpecThrow == InitTrack /\ [][NextThrow]_vars

(* ------------------------------ claims -------------------------------- *)
ReadyListeners == OfKind(onTick, "ready")
DebounceListeners == OfKind(onTick, "debounce")
Registered(ls, r) == \E i \in 1..Len(ls) : ls[i].reg = r

\* C1 (as claimed): from the arming of a debounce timer in an Idle state up
\* to that timer's own rebuild, the show/hide calls of its window cause
\* exactly one rebuild; no other rebuild is performed in the window.
C1_OneRebuildPerWindow == h.winRebuilds <= 1

\* C2 (as claimed): after a creation during which the contribution set was
\* mutated has finished, no more than one follow-up rebuild is performed
\* unless a later call arms a new one.
C2_OneFollowUp == h.follow <= 1

\* C3: at most one candidate primitive is under construction and at most one
\* readiness poll is registered, exactly when primitivePendingCreation is
\* set; a debounce timer that fires meanwhile does not add a second one.
C3_SingleFlight ==
  /\ Len(ReadyListeners) <= 1
  /\ primitivePendingCreation <=> Len(ReadyListeners) = 1

C3_Witness ==
  /\ h.blocked
  /\ primitivePendingCreation
  /\ Len(ReadyListeners) = 1
  /\ Len(DebounceListeners) >= 1

\* C4: the scene holds at most one batched primitive, and the one it holds
\* is the static primitive.
C4_SceneHoldsCurrent ==
  /\ Cardinality(scenePrimitives) <= 1
  /\ \A p \in scenePrimitives : primitive.pid = p

\* a second primitive has replaced the first
C4_Witness ==
  /\ primitive.pid = 2
  /\ scenePrimitives = {2}

Settled ==
  /\ ~primitivePendingUpdate
  /\ ~primitivePendingCreation
  /\ IF geometries = <<>>
     THEN primitive.pid = 0 /\ scenePrimitives = {}
     ELSE /\ primitive.pid # 0
          /\ primitive.insts = geometries
          /\ scenePrimitives = {primitive.pid}

\* C5: with ticks arriving and candidates becoming ready, once the show/hide
\* calls have stopped the manager ends up Idle for good, the installed
\* primitive built from the final contribution set (none if it is empty).
C5_EventuallySettled == <>[]Settled

C5_Witness ==
  /\ callsLeft = 0
  /\ Settled
  /\ Len(geometries) = 2
  /\ primitive.pid = 2

C7_TransformAtInstall ==
  primitive.pid # 0 =>
     primitive.modelMatrix = IcrfToFixed(primitive.installedAt)

\* C8: the leave callback of a registration has run exactly once as soon as
\* its change event has been raised, and never runs a second time.
C8_LeaveOnce ==
  \A r \in 1..Len(regs) :
     regs[r].leaves = IF regs[r].changes > 0 THEN 1 ELSE 0

\* the change event was raised twice after the registration
C8_Witness ==
  \E r \in 1..Len(regs) : regs[r].changes = 2 /\ regs[r].leaves = 1

\* C9: once the change event of a registration has been raised, neither of
\* its listeners is registered and its onTick callback runs no more.
C9_NoDanglingListener ==
  \A r \in 1..Len(regs) :
     regs[r].changes > 0 =>
        /\ ~Registered(onTick, r)
        /\ ~Registered(selectedEntityChanged, r)
        /\ ~Registered(trackedEntityChanged, r)
        /\ ~regs[r].tickAfterLeave

\* the callback ran, the change event came, and the clock ticked again
C9_Witness ==
  \E r \in 1..Len(regs) :
     regs[r].ticked /\ regs[r].changes > 0 /\ regs[r].laterTick

\* C10 (as claimed): after setTrackedOnTickCallback, selecting a different
\* object has removed both listeners and run onUntrack once.
C10_SelectionEndsTracking ==
  \A r \in 1..Len(regs) :
     (regs[r].kind = "tracked" /\ regs[r].selChanged) =>
        /\ ~Registered(onTick, r)
        /\ ~Registered(trackedEntityChanged, r)
        /\ regs[r].leaves = 1

\* C10 (amended): after setTrackedOnTickCallback, a change of the tracked
\* object has removed both listeners and run onUntrack once, and its onTick
\* callback runs no more; until the tracked object changes both listeners
\* stay registered, whatever is selected.
C10_TrackedChangeEndsTracking ==
  \A r \in 1..Len(regs) :
     regs[r].kind = "tracked" =>
        IF regs[r].changes > 0
        THEN /\ ~Registered(onTick, r)
             /\ ~Registered(trackedEntityChanged, r)
             /\ regs[r].leaves = 1
             /\ ~regs[r].tickAfterLeave
        ELSE /\ Registered(onTick, r)
             /\ Registered(trackedEntityChanged, r)
             /\ regs[r].leaves = 0

\* a selection change came first and left the registration in place, then
\* the tracked object changed and the clock ticked again
C10_Witness ==
  \E r \in 1..Len(regs) :
     /\ regs[r].kind = "tracked"
     /\ regs[r].selChanged
     /\ regs[r].changes = 1
     /\ regs[r].leaves = 1
     /\ regs[r].laterTick

PeriodicListener(r) == Lookup(onTick, periodic[r].handle)
PeriodicRegistered(r) == HasListener(onTick, periodic[r].handle)

\* C11 (as claimed): the k-th invocation of a createPeriodicTickCallback
\* callback with refreshRate n happens on the (k*n)-th tick after its
\* registration, and the counter is 0 after each firing.
C11_EveryNTicks ==
  \A r \in 1..Len(periodic) :
     (/\ periodic[r].kind = "everyTicks"
      /\ periodic[r].cancels = 0
      /\ periodic[r].seen < MaxSeen) =>
        /\ periodic[r].calls = periodic[r].seen \div periodic[r].rate
        /\ periodic[r].callsNow > 0 => periodic[r].ticksAfter = 0

\* C12: on every tick a createPeriodicTimeCallback callback is invoked, once,
\* exactly when the absolute difference between the clock time and its
\* reference time is at least its refreshRate, also when the clock has moved
\* backward; the reference is then the clock time, and is kept otherwise.
C12_FiresWhenElapsed ==
  \A r \in 1..Len(periodic) :
     (/\ periodic[r].kind = "everyTime"
      /\ periodic[r].seen > 0
      /\ periodic[r].active) =>
        /\ periodic[r].callsNow <= 1
        /\ periodic[r].callsNow = 1 <=>
              Abs(currentTime - periodic[r].prevRef) >= periodic[r].rate
        /\ PeriodicRegistered(r) =>
              PeriodicListener(r).lastUpdated =
                 IF periodic[r].callsNow = 1 THEN currentTime
                 ELSE periodic[r].prevRef

\* a firing on a tick that moved the clock backward, the reference updated
C12_Witness ==
  \E r \in 1..Len(periodic) :
     /\ periodic[r].kind = "everyTime"
     /\ periodic[r].active
     /\ periodic[r].callsNow = 1
     /\ currentTime < periodic[r].prevRef
     /\ PeriodicRegistered(r)
     /\ PeriodicListener(r).lastUpdated = currentTime

\* C13: a tick that moves the clock forward by more than the refreshRate
\* invokes a createPeriodicTimeCallback callback exactly once, and the ticks
\* after it invoke it no more while less than a refreshRate has elapsed
\* from the time of the jump.
C13_NoCatchUp ==
  \A r \in 1..Len(periodic) :
     (/\ periodic[r].kind = "everyTime"
      /\ periodic[r].seen > 0
      /\ periodic[r].active) =>
        /\ currentTime - periodic[r].prevRef > periodic[r].rate =>
              periodic[r].callsNow = 1
        /\ (/\ periodic[r].prevJump
            /\ Abs(currentTime - periodic[r].jumpAt) < periodic[r].rate) =>
              periodic[r].callsNow = 0

\* the clock jumped by twice the refreshRate, the callback fired, and the
\* next tick, at the same clock time, did not invoke it
C13_Witness ==
  \E r \in 1..Len(periodic) :
     /\ periodic[r].kind = "everyTime"
     /\ periodic[r].active
     /\ periodic[r].prevJump
     /\ periodic[r].jumpAt >= 2 * periodic[r].rate
     /\ currentTime = periodic[r].jumpAt
     /\ periodic[r].callsNow = 0

\* C14: a periodic callback whose cancel handle was invoked before its first
\* invocation is never invoked, whatever ticks follow.
C14_CancelBeforeFire ==
  \A r \in 1..Len(periodic) :
     periodic[r].unfired => periodic[r].calls = 0

\* a tick-based and a time-based callback, both cancelled before firing,
\* have each seen a tick on which they were due
C14_Witness ==
  \E r, q \in 1..Len(periodic) :
     /\ periodic[r].kind = "everyTicks"
     /\ periodic[q].kind = "everyTime"
     /\ periodic[r].unfired /\ periodic[r].due
     /\ periodic[q].unfired /\ periodic[q].due

\* C15: a periodic callback stays registered until its cancel handle is
\* invoked; once it has been invoked, by the caller or from inside the
\* callback, once or twice, the listener is removed, the callback is not
\* invoked again, and the other listeners of the event stay registered.
C15_CancelIdempotent ==
  \A r \in 1..Len(periodic) :
     IF periodic[r].cancels = 0
     THEN PeriodicRegistered(r)
     ELSE ~PeriodicRegistered(r) /\ ~periodic[r].callAfterCancel

\* a callback cancelled itself while firing, was cancelled a second time by
\* the caller and was due again on a later tick; the other callback of the
\* event has fired and is still registered
C15_Witness ==
  \E r, q \in 1..Len(periodic) :
     /\ periodic[r].selfCancel
     /\ periodic[r].calls = 1
     /\ periodic[r].cancels = 2
     /\ periodic[r].due
     /\ periodic[q].cancels = 0
     /\ periodic[q].calls > 0
     /\ PeriodicRegistered(q)

\* C16: visibleComponents is exactly the set of stored components that are
\* in the scene (viewer.entities or scene.primitives), whatever show, hide
\* and additions or removals made past the collection came before.
C16_VisibleIsLive ==
  VisibleComponents(Cur) = components \cap (entities \cup primitives)

\* a stored component was removed from the scene from outside and is not
\* visible, another stored one is
C16_Witness ==
  /\ h.bypassed
  /\ \E c \in components \cap EntityNames : c \notin entities
  /\ VisibleComponents(Cur) # {}

\* the component of name n is installed
Installed(n) == InstalledIn(Cur, n)

\* C17 (as claimed): when hide of a stored component of a lazy collection is
\* followed by show of the same name (or hide() by show()), a component of
\* that name is stored and installed again.
C17_HideShowRoundTrip ==
  \A n \in h.trip : n \in components /\ Installed(n)

C19_FlyToPausesAndRestores ==
  \A i \in 1..Len(flights) :
     /\ flights[i].status = "pending" => ~shouldAnimate
     /\ flights[i].status = "done" =>
           /\ ~flights[i].atAnimate
           /\ flights[i].endTracked = flights[i].endDefault
           /\ flights[i].endAnimate = flights[i].before

\* a transition started with the clock running has completed: the clock
\* runs again and defaultEntity is tracked
C19_Witness ==
  \E i \in 1..Len(flights) :
     /\ flights[i].status = "done"
     /\ flights[i].before
     /\ shouldAnimate
     /\ trackedEntity = defaultEntity
     /\ defaultEntity \in EntityNames

C22_HideRemovesLazyDeletes ==
  /\ \A n \in h.gone : ~Installed(n) /\ (n \in components <=> ~lazy)
  /\ \A n \in h.back : n \in components /\ Installed(n)

\* an entity and a geometry of a collection that is not lazy were installed,
\* hidden and shown again
C22_Witness ==
  /\ ~lazy
  /\ h.back \cap EntityNames # {}
  /\ h.back \cap Names # {}

\* C23 (as claimed): the debounce timer is one-shot: once it has fired with
\* no creation in flight and processed the rebuild its listener is no
\* longer registered, so a debounce listener is registered only while a
\* rebuild is pending and there is never more than one.
C23_OneShotDebounce ==
  /\ Len(DebounceListeners) <= 1
  /\ Len(DebounceListeners) = 1 => primitivePendingUpdate

\* C24: after a tick on which the debounce timer fired with no creation in
\* flight on an empty contribution set, the primitive that was installed (if
\* any) is out of the scene, the static primitive is cleared, no candidate
\* is under construction and both flags are clear (Idle).
C24_EmptySetClears ==
  h.emptied # "no" =>
     /\ geometries = <<>>
     /\ primitive.pid = 0
     /\ scenePrimitives = {}
     /\ Len(ReadyListeners) = 0
     /\ ~primitivePendingUpdate
     /\ ~primitivePendingCreation

\* the timer fired on the empty set while a primitive was installed
C24_Witness ==
  /\ h.emptied = "removed"
  /\ primitive.pid = 0
  /\ scenePrimitives = {}

\* C25 (as claimed): every readiness poll registered when a tick begins is
\* invoked once during it, and a poll that finds its candidate not ready
\* calls update exactly when the progression state it reads is the one the
\* previous poll read.
C25_AdvancedWhenUnchanged ==
  /\ h.polls = h.pollDue
  /\ h.pollN = 2 => (h.advanced <=> h.readState = h.prevState)

\* C25 (amended): every readiness poll registered when a tick begins is
\* invoked once during it, and a poll that finds its candidate not ready
\* calls update exactly when it is the first poll of the candidate or the
\* progression state it reads differs from the one the previous poll read;
\* it does not call update when the state is unchanged.
C25_AdvancedOnChange ==
  /\ h.polls = h.pollDue
  /\ h.pollN = 1 => h.advanced
  /\ h.pollN = 2 => (h.advanced <=> h.readState # h.prevState)

\* a poll found the candidate in the state the previous poll read, its
\* worker busy, and did not call update
C25_Witness ==
  /\ h.polls = 1
  /\ h.pollN = 2
  /\ h.readState = 1
  /\ h.prevState = 1
  /\ ~h.advanced

\* C26 (as claimed): when computeIcrfToFixedMatrix is undefined on the tick
\* a candidate is found ready the transform is skipped for that tick and
\* retried on a following one: a primitive is in the scene without the
\* inertial-to-fixed transform only while its poll is still registered to
\* retry.
C26_TransformRetried ==
  (primitive.pid # 0 /\ primitive.modelMatrix = Identity) =>
     \E i \in 1..Len(onTick) :
        onTick[i].kind = "ready" /\ onTick[i].prim.pid = primitive.pid

\* C27: when the readiness poll that found its candidate ready returns, the
\* old static primitive (if any) is out of the scene, the candidate is in
\* it and is the static primitive, a redraw has been requested, the
\* creation flag is clear and the poll is unregistered; the manager is then
\* Idle, or a rebuild is pending with its debounce listener registered.
C27_AtomicSwap ==
  h.swap.new # 0 =>
     /\ h.swap.old \notin h.swap.scene
     /\ h.swap.new \in h.swap.scene
     /\ h.swap.current = h.swap.new
     /\ h.swap.rendered
     /\ ~h.swap.creation
     /\ ~h.swap.polling
     /\ h.swap.update => h.swap.debounce >= 1

\* a second primitive has replaced the first within one tick callback
C27_Witness ==
  /\ h.swap.old # 0
  /\ h.swap.new # h.swap.old
  /\ primitive.pid = h.swap.new
  /\ scenePrimitives = {h.swap.new}

\* C28 (as claimed): the contribution pool holds exactly the stored geometry
\* components that were shown and not hidden since, each of them once, and
\* after every show or hide call on such a component a rebuild is pending.
C28_PoolIsShownSet ==
  /\ Range(geometries) = h.shown
  /\ \A n \in h.shown :
        Cardinality({i \in 1..Len(geometries) : geometries[i] = n}) = 1
  /\ h.mutated => primitivePendingUpdate

\* a candidate is under construction and its ready predicate is false
CandidateNotReady ==
  /\ primitivePendingCreation
  /\ \A i \in 1..Len(onTick) :
        onTick[i].kind = "ready" => ~onTick[i].prim.ready

\* C29: as long as the ready predicate of the candidate is false, no step
\* (tick, debounce firing, show or hide) ends the creation, replaces or
\* removes the static primitive or changes the scene, and a rebuild that
\* is pending keeps its debounce listener registered; a candidate that
\* never becomes ready therefore leaves the manager in Creating for good.
C29_StallKeepsCreating ==
  [][CandidateNotReady =>
       /\ primitivePendingCreation'
       /\ UNCHANGED <<primitive, scenePrimitives>>
       /\ primitivePendingUpdate' =>
             Len(OfKind(onTick', "debounce")) >= 1]_vars

\* during a creation that is not ready the contribution set was mutated
\* and the debounce timer of the mutation has fired and stays registered;
\* the primitive in the scene is still the one built before
C29_Witness ==
  /\ CandidateNotReady
  /\ primitive.pid # 0
  /\ scenePrimitives = {primitive.pid}
  /\ h.mutInCreate
  /\ h.blocked
  /\ primitivePendingUpdate
  /\ Len(DebounceListeners) >= 1
  /\ Range(geometries) # Range(primitive.insts)

\* C30 (as claimed): an assignment to imageryLayers of a list that holds an
\* unknown layer name, or to terrainProvider of an unknown name, logs an
\* error and leaves the imagery layers of the scene and the terrain
\* provider as they were.
C30_UnknownProviderNoOp ==
  [][(h'.aflip # h.aflip /\ h'.assigned = "unknown") =>
       /\ Len(consoleErrors') > Len(consoleErrors)
       /\ UNCHANGED <<imageryLayers, terrainProvider>>]_vars

\* C31 (as claimed): an exception a periodic callback throws leaves the tick
\* listener for the event source (the tick ends with it in flight, the
\* listeners after it not called), the registration stays active, and a
\* createPeriodicTickCallback callback of refreshRate n is next invoked no
\* earlier than n ticks after the invocation that failed.
C31_ThrowKeepsSchedule ==
  \A r \in 1..Len(periodic) :
     periodic[r].throws =>
        /\ PeriodicRegistered(r)
        /\ periodic[r].callsNow > 0 => h.thrown
        /\ periodic[r].kind = "everyTicks" => ~periodic[r].early

\* C32 (as claimed): when a track(true) call made with the clock running is
\* overtaken by a later track(true) call (its transition resolves falsy
\* because of the new flyTo) and the later transition resolves truthy, the
\* clock runs again and the tracked entity is defaultEntity.
C32_OverlapResumesClock ==
  \A i \in 2..Len(flights) :
     (/\ flights[i].status = "done"
      /\ flights[i - 1].status = "aborted"
      /\ flights[i - 1].cause = "flyTo"
      /\ flights[i - 1].before) =>
        /\ flights[i].endAnimate
        /\ flights[i].endTracked = flights[i].endDefault

\* C33 (as claimed): after any show and hide calls defaultEntity is unset or
\* a component stored in the collection, and whenever track sets the
\* viewer's tracked entity it sets it to a stored component.
C33_DefaultIsStored ==
  /\ [](defaultEntity = Undefined \/ defaultEntity \in components)
  /\ [][(trackedEntity' # trackedEntity /\ trackedEntity' # Undefined) =>
          trackedEntity' \in components']_vars

\* C34: a static primitive that is in the scene when a creation starts or
\* runs stays the static primitive and stays in the scene through every step
\* that leaves the creation running, and the step that ends the creation is
\* the readiness poll's swap: it found that primitive installed and left the
\* candidate in the scene. The scene is never without a batched primitive
\* between the two.
C34_OldStaysWhileCreating ==
  [][(primitive.pid # 0 /\ primitive.pid \in scenePrimitives) =>
       /\ (primitivePendingCreation' /\ h'.swap = NoSwap) =>
             UNCHANGED <<primitive, scenePrimitives>>
       /\ (primitivePendingCreation /\ ~primitivePendingCreation') =>
             h'.swap # NoSwap
       /\ (primitivePendingCreation /\ h'.swap # NoSwap) =>
             /\ h'.swap.old = primitive.pid
             /\ h'.swap.new \in h'.swap.scene]_vars

\* a creation on a non-empty contribution set is running, its candidate has
\* been polled on the latest tick, and the primitive built before is still
\* the static primitive and in the scene
C34_Witness ==
  /\ primitivePendingCreation
  /\ geometries # <<>>
  /\ h.polls > 0
  /\ primitive.pid # 0
  /\ primitive.pid \in scenePrimitives

\* C35 (as claimed): once every provider creation started by an assignment
\* of a known name to terrainProvider has resolved, the viewer's terrain
\* provider is the one the latest of these assignments named.
C35_LastAssignmentWins ==
  (terrainCreating = <<>> /\ h.requested # Undefined) =>
     terrainProvider = h.requested

\* C36 (as claimed): the batched primitive built for one subclass holds only
\* geometries contributed through collections of that subclass.
C36_ClassIsolation ==
  \A c \in Subclasses :
     \A g \in Range(statics.primitive[c].insts) : Owner(g) = c

\* the ids of the timer list are apart by ten seconds or more, a call for a
\* past date added nothing, and clearTimers left the list empty
PushListSound ==
  /\ \A i, j \in 1..Len(pushManager.timers) :
        i # j => Abs(pushManager.timers[i].date
                       - pushManager.timers[j].date) >= 10000
  /\ (pushManager.last.op = "notify"
        /\ pushManager.last.date < pushManager.last.at) =>
        ~pushManager.last.added
  /\ pushManager.last.op = "clear" =>
        pushManager.timers = <<>> /\ ~Active(pushManager)

\* C37 (as claimed): the timer list never holds two entries less than ten
\* seconds apart, a call for a past date schedules nothing, after clearTimers
\* the list is empty and active is false, and no notification that was in
\* the list at a clearTimers call is shown after it.
C37_ClearCancelsAll ==
  /\ PushListSound
  /\ pushManager.stale \cap pushManager.shown = {}

\* C37 (amended): as claimed, but of the notifications in the list at a
\* clearTimers call only those whose timeout had not fired yet are never
\* shown.
C37_ClearCancelsPending ==
  /\ PushListSound
  /\ pushManager.cancelled \cap pushManager.shown = {}

\* of three notifyAtDate calls two scheduled a timeout that a clearTimers
\* call cancelled; the clock has passed every due time and nothing is
\* pending or in flight any more
C37_Witness ==
  /\ pushManager.calls = 3
  /\ Cardinality(pushManager.cancelled) = 2
  /\ pushManager.last.op = "clear"
  /\ pushManager.now = 25000
  /\ pushManager.timeouts = {}
  /\ pushManager.lookups = {}

\* deserialize(serialize(v)) = v for the value v of the field of config
RoundTrips(config) ==
  Deserialize(config, Serialize(config, urlSync.store[config.name]))
    = urlSync.store[config.name]

\* the names of the field's list are not empty and hold neither a comma nor
\* the character serialize puts for a space
CleanNames(config) ==
  LET v == urlSync.store[config.name] IN
  \A i \in 1..Len(v) :
     /\ v[i] # <<>>
     /\ \A k \in 1..Len(v[i]) : v[i][k] \notin {",", config.sep}

\* a field that serializes as its default is not in the URL, any other is
\* there under its parameter name with its serialized value
UrlShowsStore ==
  \A i \in 1..Len(SyncConfig) :
     LET config == SyncConfig[i] IN
     IF Serialize(config, urlSync.defaults[config.name])
          = Serialize(config, urlSync.store[config.name])
     THEN ~urlSync.query[config.url].present
     ELSE /\ urlSync.query[config.url].present
          /\ urlSync.query[config.url].value
               = Serialize(config, urlSync.store[config.name])

\* C38 (as claimed): deserialize(serialize(v)) = v for every list of names
\* a synced list field holds, and a field is absent from the URL exactly
\* when it serializes as its default.
C38_UrlRoundTrip ==
  /\ \A i \in 1..Len(SyncConfig) : RoundTrips(SyncConfig[i])
  /\ UrlShowsStore

\* C38 (amended): deserialize(serialize(v)) = v exactly for the lists whose
\* names are not empty and hold neither a comma nor the field's replacement
\* character ("-" for elements and tags, "~" for sats); the URL half as
\* claimed; a page reloaded with such lists has the store it was left with.
C38_CleanRoundTrip ==
  /\ \A i \in 1..Len(SyncConfig) :
        RoundTrips(SyncConfig[i]) <=> CleanNames(SyncConfig[i])
  /\ UrlShowsStore
  /\ (urlSync.loads > 1
        /\ \A i \in 1..Len(SyncConfig) :
              Deserialize(SyncConfig[i],
                Serialize(SyncConfig[i], urlSync.before[SyncConfig[i].name]))
                = urlSync.before[SyncConfig[i].name]) =>
        urlSync.store = urlSync.before

\* the satellites were set to one name with a space in it, the URL showed
\* it with "~", and the reloaded page has the same list again
C38_Witness ==
  /\ urlSync.loads = 2
  /\ urlSync.patches = 1
  /\ urlSync.store.enabledSatellites = << <<"Point", " ", "Point">> >>
  /\ urlSync.query.sats.present
  /\ urlSync.query.sats.value = <<"Point", "~", "Point">>
  /\ ~urlSync.query.elements.present

====
